---- MODULE Spec2Model ----
(***************************************************************************)
(* Model of fast-pdf-parser: the streaming page dispatcher                  *)
(* (FastPdfParser::Impl::parse_streaming over ThreadPool), the callback of  *)
(* HierarchicalChunker::chunk_file, and the seven-pass chunking pipeline of *)
(* hierarchical_chunker.cpp with the greedy longest-match token counter.    *)
(*                                                                          *)
(* Further specifications cover the HierarchicalChunker object            *)
(* (constructor, set_options, process_pdf_to_json), the one-time load of    *)
(* the vocabulary in TiktokenTokenizer() and the loop of encode.            *)
(*                                                                          *)
(* Text is a sequence of byte values.  A page outcome is either Failed      *)
(* (extract_page threw) or the page text chunk_file builds from the page.   *)
(***************************************************************************)
EXTENDS Integers, Sequences, FiniteSets, TLC

(* ------------------------------------------------------------------ *)
(* Bytes the code tests for                                            *)
(* ------------------------------------------------------------------ *)
NL == 10
SP == 32
HASH == 35
DOT == 46
BACKTICK == 96

MaxTokenLen == 20
NoHeading == 999
NoPage == -1

Min(a, b) == IF a < b THEN a ELSE b

IsSpace(c) == c \in {9, 10, 11, 12, 13, 32}

IsDigit(c) == c \in 48..57

IsBullet(c) == c \in {45, 42, 43, 226, 128, 162}

\* '.' of the regular expressions: any byte but a line terminator
IsDotChar(c) == c \notin {10, 13}

AllSpace(s, from, to) == \A k \in from..to : IsSpace(s[k])

AllDigits(s, from, to) == \A k \in from..to : IsDigit(s[k])

AllDotChars(s, from, to) == \A k \in from..to : IsDotChar(s[k])

Suffix(s, from) == SubSeq(s, from, Len(s))

(* ------------------------------------------------------------------ *)
(* TiktokenTokenizer: greedy longest match with byte fallback          *)
(* A vocabulary is its encoder map: token bytes -> token id.           *)
(* ------------------------------------------------------------------ *)
\* BestLen without the limit on the token length searched
BestLenUncapped(text, pos, encoder) ==
    LET max_len == Len(text) - pos + 1
        hits == {len \in 1..max_len : SubSeq(text, pos, pos + len - 1) \in DOMAIN encoder}
    IN  IF hits = {} THEN 0 ELSE CHOOSE len \in hits : \A o \in hits : o <= len

BestLen(text, pos, encoder) ==
    LET max_len == Min(Len(text) - pos + 1, MaxTokenLen)
        hits == {len \in 1..max_len : SubSeq(text, pos, pos + len - 1) \in DOMAIN encoder}
    IN  IF hits = {} THEN 0 ELSE CHOOSE len \in hits : \A o \in hits : o <= len

RECURSIVE EncodeFrom(_, _, _)
EncodeFrom(text, pos, encoder) ==
    IF pos > Len(text) THEN <<>>
    ELSE LET best_len == BestLen(text, pos, encoder)
         IN  IF best_len > 0
             THEN <<encoder[SubSeq(text, pos, pos + best_len - 1)]>>
                      \o EncodeFrom(text, pos + best_len, encoder)
             ELSE <<text[pos]>> \o EncodeFrom(text, pos + 1, encoder)

encode(text, encoder) == EncodeFrom(text, 1, encoder)

\* count_tokens answering with the four-bytes-per-token estimate
estimate_tokens(text, encoder) == (Len(text) + 3) \div 4

count_tokens(text, encoder) == Len(encode(text, encoder))

(* ------------------------------------------------------------------ *)
(* TiktokenTokenizer: reading the embedded vocabulary                  *)
(* ------------------------------------------------------------------ *)
\* base64_chars.find(c), -1 for npos
Base64Index(c) ==
    IF c \in 65..90 THEN c - 65
    ELSE IF c \in 97..122 THEN c - 97 + 26
    ELSE IF c \in 48..57 THEN c - 48 + 52
    ELSE IF c = 43 THEN 62
    ELSE IF c = 47 THEN 63
    ELSE -1

\* val is an int of which only bits valb..valb+7 with valb <= 4 are read: the
\* model keeps its low 12 bits
RECURSIVE Base64From(_, _, _, _, _)
Base64From(encoded, k, val, valb, decoded) ==
    IF k > Len(encoded) \/ encoded[k] = 61 THEN decoded
    ELSE IF Base64Index(encoded[k]) = -1
         THEN Base64From(encoded, k + 1, val, valb, decoded)
    ELSE LET v == (val * 64 + Base64Index(encoded[k])) % 4096
             vb == valb + 6
         IN  IF vb >= 0
             THEN Base64From(encoded, k + 1, v, vb - 8,
                             Append(decoded, (v \div (2 ^ vb)) % 256))
             ELSE Base64From(encoded, k + 1, v, vb, decoded)

base64_decode(encoded) == Base64From(encoded, 1, 0, -8, <<>>)

\* std::stoi on a string of decimal digits
RECURSIVE StoiFrom(_, _, _)
StoiFrom(str, k, acc) ==
    IF k > Len(str) \/ ~IsDigit(str[k]) THEN acc
    ELSE StoiFrom(str, k + 1, 10 * acc + (str[k] - 48))

stoi(str) == StoiFrom(str, 1, 0)

\* line.find(' '), 0 for npos
FindSpace(line) ==
    LET at == {k \in 1..Len(line) : line[k] = SP}
    IN  IF at = {} THEN 0 ELSE CHOOSE k \in at : \A o \in at : k <= o

\* one iteration of the load loop on the maps: <<encoder, decoder>> afterwards
LoadLine(line, enc, dec) ==
    LET space_pos == FindSpace(line)
        token == base64_decode(SubSeq(line, 1, space_pos - 1))
        token_id == stoi(Suffix(line, space_pos + 1))
    IN  IF space_pos = 0 THEN <<enc, dec>>
        ELSE <<[t \in DOMAIN enc \cup {token} |-> IF t = token THEN token_id ELSE enc[t]],
               [d \in DOMAIN dec \cup {token_id} |-> IF d = token_id THEN token ELSE dec[d]]>>

RECURSIVE LoadLines(_, _, _)
LoadLines(lines, enc, dec) ==
    IF lines = <<>> THEN <<enc, dec>>
    ELSE LoadLines(Tail(lines), LoadLine(Head(lines), enc, dec)[1],
                   LoadLine(Head(lines), enc, dec)[2])

(* ------------------------------------------------------------------ *)
(* std::getline over a text                                            *)
(* ------------------------------------------------------------------ *)
FirstNL(text) ==
    LET at == {k \in 1..Len(text) : text[k] = NL}
    IN  IF at = {} THEN 0 ELSE CHOOSE k \in at : \A o \in at : k <= o

RECURSIVE GetLines(_)
GetLines(text) ==
    IF text = <<>> THEN <<>>
    ELSE LET nl == FirstNL(text)
         IN  IF nl = 0 THEN <<text>>
             ELSE <<SubSeq(text, 1, nl - 1)>> \o GetLines(Suffix(text, nl + 1))

(* ------------------------------------------------------------------ *)
(* detect_line_type                                                    *)
(* ------------------------------------------------------------------ *)
LeadingHashes(line) ==
    LET stop == {k \in 1..Len(line) : line[k] # HASH}
    IN  IF stop = {} THEN Len(line) ELSE (CHOOSE k \in stop : \A o \in stop : k <= o) - 1

\* \s+(.+)$ matched from position from
SpacesThenText(line, from) ==
    \E s \in 1..Len(line) :
        /\ from + s <= Len(line)
        /\ AllSpace(line, from, from + s - 1)
        /\ AllDotChars(line, from + s, Len(line))

\* ^(#+)\s+(.+)$
IsHeading(line) ==
    LET k == LeadingHashes(line)
    IN  k >= 1 /\ SpacesThenText(line, k + 1)

\* ^\s*[-*+bullet]\s+(.+)$ | ^\s*\d+\.\s+(.+)$
IsListItem(line) ==
    \E w \in 0..Len(line) :
        /\ AllSpace(line, 1, w)
        /\ \/ /\ w + 1 <= Len(line)
              /\ IsBullet(line[w + 1])
              /\ SpacesThenText(line, w + 2)
           \/ \E d \in 1..Len(line) :
                 /\ w + d + 1 <= Len(line)
                 /\ AllDigits(line, w + 1, w + d)
                 /\ line[w + d + 1] = DOT
                 /\ SpacesThenText(line, w + d + 2)

IsCodeBlock(line) ==
    \/ \E k \in 1..Len(line) - 2 :
          line[k] = BACKTICK /\ line[k + 1] = BACKTICK /\ line[k + 2] = BACKTICK
    \/ Len(line) >= 2 /\ line[1] = SP /\ line[2] = SP

detect_line_type(line) ==
    IF line = <<>> \/ AllSpace(line, 1, Len(line)) THEN <<"BLANK", 0>>
    ELSE IF IsHeading(line)
         THEN IF LeadingHashes(line) <= 2
              THEN <<"MAJOR_HEADING", LeadingHashes(line)>>
              ELSE <<"MINOR_HEADING", LeadingHashes(line)>>
    ELSE IF IsListItem(line) THEN <<"LIST_ITEM", 0>>
    ELSE IF IsCodeBlock(line) THEN <<"CODE_BLOCK", 0>>
    ELSE <<"NORMAL", 0>>

(* ------------------------------------------------------------------ *)
(* Pass 1: annotate_lines                                              *)
(* pages is a sequence of <<page_text, page_num>>                      *)
(* ------------------------------------------------------------------ *)
AnnotatePage(page, encoder) ==
    LET ls == GetLines(page[1])
    IN  [k \in 1..Len(ls) |->
            [text |-> ls[k],
             type |-> detect_line_type(ls[k])[1],
             tokens |-> count_tokens(ls[k], encoder),
             page |-> page[2],
             heading_level |-> detect_line_type(ls[k])[2]]]

RECURSIVE annotate_lines(_, _)
annotate_lines(pages, encoder) ==
    IF pages = <<>> THEN <<>>
    ELSE AnnotatePage(Head(pages), encoder) \o annotate_lines(Tail(pages), encoder)

(* ------------------------------------------------------------------ *)
(* SemanticUnit                                                        *)
(* ------------------------------------------------------------------ *)
EmptyUnit ==
    [lines |-> <<>>, total_tokens |-> 0, pages |-> {},
     has_major_heading |-> FALSE, max_heading_level |-> NoHeading]

add_line(unit, line) ==
    [lines |-> Append(unit.lines, line),
     total_tokens |-> unit.total_tokens + line.tokens,
     pages |-> unit.pages \cup {line.page},
     has_major_heading |-> unit.has_major_heading \/ line.type = "MAJOR_HEADING",
     max_heading_level |->
         IF line.type = "MAJOR_HEADING"
         THEN Min(unit.max_heading_level, line.heading_level)
         ELSE unit.max_heading_level]

RECURSIVE JoinLines(_)
JoinLines(lines) ==
    IF lines = <<>> THEN <<>>
    ELSE Head(lines).text \o <<NL>> \o JoinLines(Tail(lines))

get_text(unit) == JoinLines(unit.lines)

IsHeadingType(t) == t \in {"MAJOR_HEADING", "MINOR_HEADING"}

(* ------------------------------------------------------------------ *)
(* Pass 2: create_semantic_units                                       *)
(* ------------------------------------------------------------------ *)
ShouldBreak(lines, i) ==
    \/ IsHeadingType(lines[i].type)
    \/ /\ lines[i].type = "BLANK"
       /\ i + 1 <= Len(lines)
       /\ IsHeadingType(lines[i + 1].type)

RECURSIVE UnitsFrom(_, _, _, _)
UnitsFrom(lines, i, units, current_unit) ==
    IF i > Len(lines)
    THEN IF current_unit.lines # <<>> THEN Append(units, current_unit) ELSE units
    ELSE LET flush == ShouldBreak(lines, i) /\ current_unit.lines # <<>>
             units1 == IF flush THEN Append(units, current_unit) ELSE units
             cur1 == IF flush THEN EmptyUnit ELSE current_unit
             cur2 == IF ~(lines[i].type = "BLANK" /\ cur1.lines = <<>>)
                     THEN add_line(cur1, lines[i]) ELSE cur1
         IN  UnitsFrom(lines, i + 1, units1, cur2)

create_semantic_units(lines) == UnitsFrom(lines, 1, <<>>, EmptyUnit)

(* ------------------------------------------------------------------ *)
(* Chunk                                                               *)
(* ------------------------------------------------------------------ *)
EmptyChunk ==
    [text |-> <<>>, tokens |-> 0, start_page |-> NoPage, end_page |-> NoPage,
     overlap_text |-> <<>>, overlap_tokens |-> 0,
     has_major_heading |-> FALSE, min_heading_level |-> NoHeading]

SetMin(S) == CHOOSE x \in S : \A y \in S : x <= y

SetMax(S) == CHOOSE x \in S : \A y \in S : y <= x

(* ------------------------------------------------------------------ *)
(* Pass 3: create_initial_chunks                                       *)
(* ------------------------------------------------------------------ *)
AddUnit(chunk, unit) ==
    [chunk EXCEPT
        !.text = chunk.text \o get_text(unit),
        !.tokens = chunk.tokens + unit.total_tokens,
        !.start_page = IF unit.pages # {} /\ chunk.start_page = NoPage
                       THEN SetMin(unit.pages) ELSE chunk.start_page,
        !.end_page = IF unit.pages # {} THEN SetMax(unit.pages) ELSE chunk.end_page,
        !.has_major_heading = chunk.has_major_heading \/ unit.has_major_heading,
        !.min_heading_level = IF unit.has_major_heading
                              THEN Min(chunk.min_heading_level, unit.max_heading_level)
                              ELSE chunk.min_heading_level]

RECURSIVE InitialFrom(_, _, _, _, _)
InitialFrom(units, k, chunks, current_chunk, max_tokens) ==
    IF k > Len(units)
    THEN IF current_chunk.text # <<>> THEN Append(chunks, current_chunk) ELSE chunks
    ELSE LET flush == /\ current_chunk.text # <<>>
                      /\ current_chunk.tokens + units[k].total_tokens > max_tokens
             chunks1 == IF flush THEN Append(chunks, current_chunk) ELSE chunks
             cur1 == IF flush THEN EmptyChunk ELSE current_chunk
         IN  InitialFrom(units, k + 1, chunks1, AddUnit(cur1, units[k]), max_tokens)

create_initial_chunks(units, max_tokens) ==
    InitialFrom(units, 1, <<>>, EmptyChunk, max_tokens)

(* ------------------------------------------------------------------ *)
(* Pass 4: add_overlap                                                 *)
(* ------------------------------------------------------------------ *)
RECURSIVE TrimOverlap(_, _, _)
TrimOverlap(overlap_text, overlap_tokens, encoder) ==
    IF count_tokens(overlap_text, encoder) > overlap_tokens /\ Len(overlap_text) > 10
    THEN TrimOverlap(Suffix(overlap_text, 11), overlap_tokens, encoder)
    ELSE overlap_text

OverlapOf(prev_text, overlap_tokens, encoder) ==
    LET chars_to_take == Min(Len(prev_text), overlap_tokens * 5)
    IN  TrimOverlap(Suffix(prev_text, Len(prev_text) - chars_to_take + 1),
                    overlap_tokens, encoder)

add_overlap(chunks, overlap_tokens, encoder) ==
    [i \in 1..Len(chunks) |->
        IF i = 1 THEN chunks[i]
        ELSE LET overlap_text == OverlapOf(chunks[i - 1].text, overlap_tokens, encoder)
             IN  [chunks[i] EXCEPT
                     !.overlap_text = overlap_text,
                     !.overlap_tokens = count_tokens(overlap_text, encoder)]]

(* ------------------------------------------------------------------ *)
(* The merge both merge passes perform                                 *)
(* ------------------------------------------------------------------ *)
\* MergeInto without the text of next
MergeKeepText(current, next) ==
    [current EXCEPT
        !.tokens = current.tokens + next.tokens,
        !.end_page = next.end_page,
        !.has_major_heading = current.has_major_heading \/ next.has_major_heading,
        !.min_heading_level = IF next.has_major_heading
                              THEN Min(current.min_heading_level, next.min_heading_level)
                              ELSE current.min_heading_level]

\* MergeInto without the end_page update
MergeKeepEnd(current, next) ==
    [current EXCEPT
        !.text = current.text \o next.text,
        !.tokens = current.tokens + next.tokens,
        !.has_major_heading = current.has_major_heading \/ next.has_major_heading,
        !.min_heading_level = IF next.has_major_heading
                              THEN Min(current.min_heading_level, next.min_heading_level)
                              ELSE current.min_heading_level]

MergeInto(current, next) ==
    [current EXCEPT
        !.text = current.text \o next.text,
        !.tokens = current.tokens + next.tokens,
        !.end_page = next.end_page,
        !.has_major_heading = current.has_major_heading \/ next.has_major_heading,
        !.min_heading_level = IF next.has_major_heading
                              THEN Min(current.min_heading_level, next.min_heading_level)
                              ELSE current.min_heading_level]

(* ------------------------------------------------------------------ *)
(* Pass 5: merge_small_chunks_hierarchically                           *)
(* max_tokens * 1.1 is compared in tenths                              *)
(* ------------------------------------------------------------------ *)
should_merge(current, next, min_tokens, max_tokens) ==
    LET combined_tokens == current.tokens + next.tokens
        sized == \/ combined_tokens <= max_tokens
                 \/ /\ 10 * combined_tokens <= 11 * max_tokens
                    /\ next.tokens < min_tokens \div 2
        veto == /\ next.has_major_heading
                /\ next.min_heading_level <= 2
                /\ current.tokens >= min_tokens \div 2
    IN  sized /\ ~veto

\* the inner while loop; yields <<current, i>>
RECURSIVE MergeForward(_, _, _, _, _)
MergeForward(chunks, current, i, min_tokens, max_tokens) ==
    IF current.tokens < min_tokens /\ i + 1 <= Len(chunks)
    THEN IF should_merge(current, chunks[i + 1], min_tokens, max_tokens)
         THEN MergeForward(chunks, MergeInto(current, chunks[i + 1]), i + 1,
                           min_tokens, max_tokens)
         ELSE <<current, i>>
    ELSE <<current, i>>

RECURSIVE MergeSmallFrom(_, _, _, _, _)
MergeSmallFrom(chunks, i, merged, min_tokens, max_tokens) ==
    IF i > Len(chunks) THEN merged
    ELSE LET r == MergeForward(chunks, chunks[i], i, min_tokens, max_tokens)
         IN  MergeSmallFrom(chunks, r[2] + 1, Append(merged, r[1]), min_tokens, max_tokens)

merge_small_chunks_hierarchically(chunks, min_tokens, max_tokens) ==
    IF chunks = <<>> THEN chunks
    ELSE MergeSmallFrom(chunks, 1, <<>>, min_tokens, max_tokens)

(* ------------------------------------------------------------------ *)
(* Pass 6: split_oversized_chunks                                      *)
(* max_tokens * 0.8 is compared in tenths                              *)
(* ------------------------------------------------------------------ *)
\* NewSplit without the start_page assignment
NewSplitNoPage(chunk) == EmptyChunk

NewSplit(chunk) == [EmptyChunk EXCEPT !.start_page = chunk.start_page]

SplitHere(current_split, line_tokens, max_tokens) ==
    /\ current_split.text # <<>>
    /\ current_split.tokens + line_tokens > max_tokens
    /\ 10 * current_split.tokens >= 8 * max_tokens

RECURSIVE SplitLinesFrom(_, _, _, _, _, _, _)
SplitLinesFrom(chunk, lines, k, result, current_split, max_tokens, encoder) ==
    IF k > Len(lines)
    THEN IF current_split.text # <<>>
         THEN Append(result, [current_split EXCEPT !.end_page = chunk.end_page])
         ELSE result
    ELSE LET line_tokens == count_tokens(lines[k], encoder)
             flush == SplitHere(current_split, line_tokens, max_tokens)
             result1 == IF flush
                        THEN Append(result, [current_split EXCEPT !.end_page = chunk.end_page])
                        ELSE result
             cur1 == IF flush THEN NewSplit(chunk) ELSE current_split
             cur2 == [cur1 EXCEPT !.text = cur1.text \o lines[k] \o <<NL>>,
                                  !.tokens = cur1.tokens + line_tokens]
         IN  SplitLinesFrom(chunk, lines, k + 1, result1, cur2, max_tokens, encoder)

SplitChunk(chunk, max_tokens, encoder) ==
    IF chunk.tokens <= max_tokens THEN <<chunk>>
    ELSE SplitLinesFrom(chunk, GetLines(chunk.text), 1, <<>>, NewSplit(chunk),
                        max_tokens, encoder)

RECURSIVE split_oversized_chunks(_, _, _)
split_oversized_chunks(chunks, max_tokens, encoder) ==
    IF chunks = <<>> THEN <<>>
    ELSE SplitChunk(Head(chunks), max_tokens, encoder)
             \o split_oversized_chunks(Tail(chunks), max_tokens, encoder)

(* ------------------------------------------------------------------ *)
(* Pass 7: final_merge_pass                                            *)
(* ------------------------------------------------------------------ *)
\* FitsStrict with the 10% slack of pass 5
FitsWithSlack(combined_tokens, max_tokens) == combined_tokens * 10 <= max_tokens * 11

\* FitsStrict with the comparison off by one
FitsStrictBelow(combined_tokens, max_tokens) == combined_tokens < max_tokens

FitsStrict(combined_tokens, max_tokens) == combined_tokens <= max_tokens

RECURSIVE FinalForward(_, _, _, _, _)
FinalForward(chunks, current, i, min_tokens, max_tokens) ==
    IF current.tokens < min_tokens /\ i + 1 <= Len(chunks)
    THEN IF FitsStrict(current.tokens + chunks[i + 1].tokens, max_tokens)
         THEN FinalForward(chunks, MergeInto(current, chunks[i + 1]), i + 1,
                           min_tokens, max_tokens)
         ELSE <<current, i>>
    ELSE <<current, i>>

MergesBack(final_chunks, current, min_tokens, max_tokens) ==
    /\ current.tokens < min_tokens
    /\ final_chunks # <<>>
    /\ FitsStrict(final_chunks[Len(final_chunks)].tokens + current.tokens, max_tokens)

RECURSIVE FinalFrom(_, _, _, _, _)
FinalFrom(chunks, i, final_chunks, min_tokens, max_tokens) ==
    IF i > Len(chunks) THEN final_chunks
    ELSE LET r == FinalForward(chunks, chunks[i], i, min_tokens, max_tokens)
             current == r[1]
             n == Len(final_chunks)
         IN  IF MergesBack(final_chunks, current, min_tokens, max_tokens)
             THEN FinalFrom(chunks, r[2] + 1,
                            [final_chunks EXCEPT ![n] = MergeInto(final_chunks[n], current)],
                            min_tokens, max_tokens)
             ELSE FinalFrom(chunks, r[2] + 1, Append(final_chunks, current),
                            min_tokens, max_tokens)

final_merge_pass(chunks, min_tokens, max_tokens) ==
    IF chunks = <<>> THEN chunks
    ELSE FinalFrom(chunks, 1, <<>>, min_tokens, max_tokens)

(* ------------------------------------------------------------------ *)
(* create_hierarchical_chunks_internal                                 *)
(* ------------------------------------------------------------------ *)
non_empty_pages(pages) == SelectSeq(pages, LAMBDA p : p[1] # <<>>)

\* Recount keeping the tracked sums
RecountKeepsTracked(chunks, encoder) == chunks

Recount(chunks, encoder) ==
    [i \in 1..Len(chunks) |->
        [chunks[i] EXCEPT !.tokens = count_tokens(chunks[i].text, encoder)]]

PassesThrough7(pages, encoder, max_tokens, overlap_tokens, min_tokens) ==
    LET annotated_lines == annotate_lines(non_empty_pages(pages), encoder)
        semantic_units == create_semantic_units(annotated_lines)
        c3 == create_initial_chunks(semantic_units, max_tokens)
        c4 == add_overlap(c3, overlap_tokens, encoder)
        c5 == merge_small_chunks_hierarchically(c4, min_tokens, max_tokens)
        c6 == split_oversized_chunks(c5, max_tokens, encoder)
    IN  final_merge_pass(c6, min_tokens, max_tokens)

create_hierarchical_chunks_internal(pages, encoder, max_tokens, overlap_tokens, min_tokens) ==
    IF non_empty_pages(pages) = <<>> THEN <<>>
    ELSE Recount(PassesThrough7(pages, encoder, max_tokens, overlap_tokens, min_tokens),
                 encoder)

\* the fields chunk_file copies into a ChunkResult
ChunkResult(chunk) ==
    [text |-> chunk.text, token_count |-> chunk.tokens,
     start_page |-> chunk.start_page, end_page |-> chunk.end_page,
     has_major_heading |-> chunk.has_major_heading,
     min_heading_level |-> chunk.min_heading_level]

ChunkResults(chunks) == [i \in 1..Len(chunks) |-> ChunkResult(chunks[i])]

(* ------------------------------------------------------------------ *)
(* Inputs                                                              *)
(* A page outcome is Failed or the lines of text extract_page returns. *)
(* ------------------------------------------------------------------ *)
MaxStreamPages == 3
MaxBatch == 2
MaxWorkers == 2
MaxChunkPages == 3

Failed == "failed"

LineA == <<97>>
LineAA == <<97, 97>>
LineAAA == <<97, 97, 97>>
LineAAAA == <<97, 97, 97, 97>>
LineLong == <<97, 97, 97, 97, 97, 97, 97, 97, 97>>
LineH1 == <<HASH, SP, 97>>
LineH2 == <<HASH, HASH, SP, 97, 97>>
LineH3 == <<HASH, HASH, HASH, SP, 97>>
LineSpace == <<SP>>
LineEmpty == <<>>

StreamOutcomes == {Failed, <<LineAAAA>>, <<LineH1>>}

ChunkOutcomes ==
    {Failed, <<LineEmpty>>, <<LineSpace>>, <<LineAAAA>>, <<LineH1>>, <<LineH3>>,
     <<LineAA, LineAAA>>, <<LineA, LineEmpty, LineH2>>, <<LineLong>>}

DocsOver(outcomes, n) == UNION {[0..(k - 1) -> outcomes] : k \in 0..n}

\* encoder maps: byte fallback only, and one with multi-byte tokens
VocabBytes == <<>>

VocabMerges ==
    (<<HASH, HASH, HASH, SP>> :> 256) @@ (<<HASH, SP>> :> 257) @@ (<<97, NL>> :> 258)

Vocabularies == {VocabBytes, VocabMerges}

\* the embedded table of "base64_token token_id" lines that holds VocabMerges
VocabBlob ==
    <<73, 121, 77, 106, 73, 65, 61, 61, 32, 50, 53, 54, 10, 73, 121, 65, 61, 32, 50, 53, 55, 10, 89, 81, 111, 61, 32, 50, 53, 56, 10>>

\* the decoder map that belongs to an encoder map
DecoderOf(enc) ==
    [d \in {enc[t] : t \in DOMAIN enc} |-> CHOOSE t \in DOMAIN enc : enc[t] = d]

ChunkOptionSets ==
    {[max_tokens |-> 5, min_tokens |-> 5, overlap_tokens |-> 0],
     [max_tokens |-> 4, min_tokens |-> 2, overlap_tokens |-> 1],
     [max_tokens |-> 10, min_tokens |-> 10, overlap_tokens |-> 0]}

StreamOptionSets == {[max_tokens |-> 4, min_tokens |-> 2, overlap_tokens |-> 1]}

PageLimits == {-1, 0, 1}

(* ------------------------------------------------------------------ *)
(* State                                                               *)
(* ------------------------------------------------------------------ *)
VARIABLES
    doc,            \* the document: page index -> outcome of extract_page
    batch_size,     \* ParseOptions.batch_size
    num_threads,    \* ThreadPool workers
    page_limit,     \* chunk_file argument
    options,        \* ChunkOptions
    encoder,        \* the vocabulary's encoder map
    tasks,          \* ThreadPool::tasks, each task named by its page_idx
    active_tasks,   \* ThreadPool::active_tasks
    workers,        \* worker -> [pc, task]
    results,        \* shared states of the packaged tasks: page_idx -> PageResult
    futures,        \* parse_streaming's vector of futures (page_idx each)
    pc,             \* position of the thread running chunk_file / parse_streaming
    i,              \* parse_streaming loop variable
    page_idx,       \* inner loop variable
    batch_end,
    fpos,           \* position of the range-for over futures
    pages,          \* chunk_file: collected <<page_text, page_number>>
    page_count,     \* chunk_file: counter of the callback
    delivered,      \* the PageResults handed to the callback so far
    stop_at,        \* number of callbacks made when the callback first returned false
    stage,          \* position inside create_hierarchical_chunks_internal
    annotated_lines,
    semantic_units,
    chunks,
    result,         \* ChunkingResult: [chunks, total_pages, total_chunks]
    constructed,    \* a HierarchicalChunker object holding options exists
    pdf_exists,     \* std::filesystem::exists(pdf_path)
    output_state,   \* what opening and writing output_path does
    output_file,    \* the content found at output_path
    process_ret,    \* what process_pdf_to_json returned
    error,          \* ChunkingResult::error of the last chunk_file
    vocab_initialized,  \* Vocabulary::initialized
    decoder,        \* Vocabulary::decoder
    init_mutex,     \* Vocabulary::init_mutex: the thread holding it, or NoThread
    ctor,           \* thread -> position inside TiktokenTokenizer()
    line_no,        \* lines of the blob the load body has consumed
    load_runs,      \* times the load body was entered
    enc_a,          \* encode: the argument is enc_a followed by enc_b
    enc_b,
    enc_pos,        \* encode: pos
    enc_tokens,     \* encode: tokens
    enc_adv,        \* the advance of pos in each iteration so far
    enc_pc,         \* position inside encode
    stop,           \* ThreadPool::stop
    producer,       \* position of a thread calling ThreadPool::enqueue
    owner,          \* position of the thread calling wait_all and ~ThreadPool
    enq_count,      \* tasks enqueue has accepted so far (tasks are named 1..enq_count)
    exec_count,     \* task -> times a worker has called it
    throws,         \* task -> whether the callable throws
    rejected,       \* a call of enqueue threw "enqueue on stopped ThreadPool"
    wait_seen,      \* enq_count when wait_all was last called (0 once the destructor runs)
    pdf_paths,      \* parse_batch argument: position -> outcome of parse on that path
    batch_results,  \* parse_batch: results
    stats,          \* FastPdfParser::Impl::stats_
    completed,      \* parse_batch: completed
    progress_calls, \* the <<current, total>> pairs handed to the progress callback
    reg,            \* worker -> the value get<int>() returned to it (0 once used)
    saved           \* process_directory: what each iteration of the save loop did

poolVars == <<tasks, active_tasks, workers, results>>
streamVars == <<futures, pc, i, page_idx, batch_end, fpos, delivered, stop_at>>
inputVars == <<doc, batch_size, num_threads, page_limit, options, encoder>>
pipeVars == <<stage, annotated_lines, semantic_units, chunks>>
apiVars == <<constructed, pdf_exists, output_state, output_file, process_ret, error>>
vocabVars == <<vocab_initialized, decoder, init_mutex, ctor, line_no, load_runs>>
encVars == <<enc_a, enc_b, enc_pos, enc_tokens, enc_adv, enc_pc>>
lifeVars == <<stop, producer, owner, enq_count, exec_count, throws, rejected, wait_seen>>
batchVars == <<pdf_paths, batch_results, stats, completed, progress_calls, reg, saved>>
vars == <<inputVars, poolVars, streamVars, pages, page_count, pipeVars, result,
          apiVars, vocabVars, encVars, lifeVars, batchVars>>

NoResult == [chunks |-> <<>>, total_pages |-> 0, total_chunks |-> 0]

N == Cardinality(DOMAIN doc)

(* ------------------------------------------------------------------ *)
(* The extraction task of parse_streaming                              *)
(* ------------------------------------------------------------------ *)
ExtractTask(d, p) ==
    IF d[p] = Failed
    THEN [page_number |-> p, content |-> <<>>, error |-> "error", success |-> FALSE]
    ELSE [page_number |-> p, content |-> d[p], error |-> "", success |-> TRUE]

(* ------------------------------------------------------------------ *)
(* The callback chunk_file passes to parse_streaming                   *)
(* ------------------------------------------------------------------ *)
RECURSIVE JoinPageLines(_, _)
JoinPageLines(lines, page_text) ==
    IF lines = <<>> THEN page_text
    ELSE JoinPageLines(Tail(lines),
             (IF page_text # <<>> THEN page_text \o <<NL>> ELSE page_text) \o Head(lines))

PageText(content) == JoinPageLines(content, <<>>)

\* CallbackKeeps without the success test
CallbackKeepsAll(page_result) == TRUE

CallbackKeeps(page_result) == page_result.success

\* what the lambda returns
CallbackReturn(page_result, count_after, limit) ==
    IF ~CallbackKeeps(page_result) THEN TRUE
    ELSE ~(limit > 0 /\ count_after >= limit)

CallbackPages(ps, page_result) ==
    IF CallbackKeeps(page_result)
    THEN Append(ps, <<PageText(page_result.content), page_result.page_number>>)
    ELSE ps

CallbackCount(count, page_result) ==
    IF CallbackKeeps(page_result) THEN count + 1 ELSE count

(* ------------------------------------------------------------------ *)
(* ThreadPool worker loop                                              *)
(* ------------------------------------------------------------------ *)
Workers == 1..num_threads

WorkerTake(w) ==
    /\ workers[w].pc = "wait"
    /\ tasks # <<>>
    /\ workers' = [workers EXCEPT ![w] = [pc |-> "run", task |-> Head(tasks)]]
    /\ tasks' = Tail(tasks)
    /\ UNCHANGED <<active_tasks, results>>
    /\ UNCHANGED <<apiVars, vocabVars, encVars, inputVars, streamVars, pages, page_count, pipeVars, result>>
    /\ UNCHANGED <<lifeVars, batchVars>>

WorkerRun(w) ==
    /\ workers[w].pc = "run"
    /\ results' = results @@ (workers[w].task :> ExtractTask(doc, workers[w].task))
    /\ workers' = [workers EXCEPT ![w].pc = "ran"]
    /\ UNCHANGED <<tasks, active_tasks>>
    /\ UNCHANGED <<apiVars, vocabVars, encVars, inputVars, streamVars, pages, page_count, pipeVars, result>>
    /\ UNCHANGED <<lifeVars, batchVars>>

WorkerCount(w) ==
    /\ workers[w].pc = "ran"
    /\ active_tasks' = active_tasks - 1
    /\ workers' = [workers EXCEPT ![w] = [pc |-> "wait", task |-> NoPage]]
    /\ UNCHANGED <<tasks, results>>
    /\ UNCHANGED <<apiVars, vocabVars, encVars, inputVars, streamVars, pages, page_count, pipeVars, result>>
    /\ UNCHANGED <<lifeVars, batchVars>>

(* ------------------------------------------------------------------ *)
(* FastPdfParser::Impl::parse_streaming                                *)
(* ------------------------------------------------------------------ *)
\* BatchEnd without the batch limit
BatchEndAll(from, size, count) == count

BatchEnd(from, size, count) == Min(from + size, count)

\* FutureAt visiting the futures last to first
FutureAtReversed(fs, k) == fs[Len(fs) - k + 1]

\* FutureAt visiting the second future first
FutureAtSwapped(fs, k) == IF Len(fs) >= 2 /\ k <= 2 THEN fs[3 - k] ELSE fs[k]

\* the future the range-for visits at position k
FutureAt(fs, k) == fs[k]

BatchStart ==
    /\ pc = "loop"
    /\ i < N
    /\ batch_end' = BatchEnd(i, batch_size, N)
    /\ page_idx' = i
    /\ pc' = "enqueue"
    /\ UNCHANGED <<futures, i, fpos, delivered, stop_at>>
    /\ UNCHANGED <<apiVars, vocabVars, encVars, inputVars, poolVars, pages, page_count, pipeVars, result>>
    /\ UNCHANGED <<lifeVars, batchVars>>

Enqueue ==
    /\ pc = "enqueue"
    /\ page_idx < batch_end
    /\ futures' = Append(futures, page_idx)
    /\ tasks' = Append(tasks, page_idx)
    /\ active_tasks' = active_tasks + 1
    /\ page_idx' = page_idx + 1
    /\ UNCHANGED <<workers, results>>
    /\ UNCHANGED <<pc, i, batch_end, fpos, delivered, stop_at>>
    /\ UNCHANGED <<apiVars, vocabVars, encVars, inputVars, pages, page_count, pipeVars, result>>
    /\ UNCHANGED <<lifeVars, batchVars>>

EnqueueDone ==
    /\ pc = "enqueue"
    /\ page_idx >= batch_end
    /\ pc' = "collect"
    /\ fpos' = 1
    /\ UNCHANGED <<futures, i, page_idx, batch_end, delivered, stop_at>>
    /\ UNCHANGED <<apiVars, vocabVars, encVars, inputVars, poolVars, pages, page_count, pipeVars, result>>
    /\ UNCHANGED <<lifeVars, batchVars>>

\* future.get() returns once the task has stored its result; the callback runs
\* on the calling thread and its return value is discarded (PageCallback is
\* std::function<void(PageResult)>)
Collect ==
    /\ pc = "collect"
    /\ fpos <= Len(futures)
    /\ FutureAt(futures, fpos) \in DOMAIN results
    /\ LET page_result == results[FutureAt(futures, fpos)]
           count_after == CallbackCount(page_count, page_result)
       IN  /\ pages' = CallbackPages(pages, page_result)
           /\ page_count' = count_after
           /\ delivered' = Append(delivered, page_result)
           /\ stop_at' = IF stop_at = 0 /\ ~CallbackReturn(page_result, count_after, page_limit)
                         THEN Len(delivered) + 1 ELSE stop_at
    /\ fpos' = fpos + 1
    /\ UNCHANGED <<futures, pc, i, page_idx, batch_end>>
    /\ UNCHANGED <<apiVars, vocabVars, encVars, inputVars, poolVars, pipeVars, result>>
    /\ UNCHANGED <<lifeVars, batchVars>>

CollectDone ==
    /\ pc = "collect"
    /\ fpos > Len(futures)
    /\ futures' = <<>>
    /\ i' = i + batch_size
    /\ pc' = "loop"
    /\ UNCHANGED <<page_idx, batch_end, fpos, delivered, stop_at>>
    /\ UNCHANGED <<apiVars, vocabVars, encVars, inputVars, poolVars, pages, page_count, pipeVars, result>>
    /\ UNCHANGED <<lifeVars, batchVars>>

StreamReturn ==
    /\ pc = "loop"
    /\ i >= N
    /\ pc' = "returned"
    /\ UNCHANGED <<futures, i, page_idx, batch_end, fpos, delivered, stop_at>>
    /\ UNCHANGED <<apiVars, vocabVars, encVars, inputVars, poolVars, pages, page_count, pipeVars, result>>
    /\ UNCHANGED <<lifeVars, batchVars>>

(* ------------------------------------------------------------------ *)
(* HierarchicalChunker::chunk_file after parse_streaming has returned  *)
(* ------------------------------------------------------------------ *)
ChunkingResult(cs, total) ==
    [chunks |-> ChunkResults(cs), total_pages |-> total, total_chunks |-> Len(cs)]

ChunkFileFinish ==
    /\ pc = "returned"
    /\ result' = ChunkingResult(
                     create_hierarchical_chunks_internal(pages, encoder, options.max_tokens,
                         options.overlap_tokens, options.min_tokens),
                     page_count)
    /\ pc' = "done"
    /\ UNCHANGED <<futures, i, page_idx, batch_end, fpos, delivered, stop_at>>
    /\ UNCHANGED <<apiVars, vocabVars, encVars, inputVars, poolVars, pages, page_count, pipeVars>>
    /\ UNCHANGED <<lifeVars, batchVars>>

(* ------------------------------------------------------------------ *)
(* The parts of the state a run of chunk_file leaves alone             *)
(* ------------------------------------------------------------------ *)
NoFile == [exists |-> FALSE, complete |-> FALSE, chunks |-> <<>>]

\* a chunker was constructed on an existing file; nothing written yet
ApiIdle ==
    /\ constructed = TRUE
    /\ pdf_exists = TRUE
    /\ output_state = "writable"
    /\ output_file = NoFile
    /\ process_ret = "none"
    /\ error = ""

\* the vocabulary was loaded before and no constructor is running
VocabLoaded ==
    /\ vocab_initialized = TRUE
    /\ decoder = DecoderOf(encoder)
    /\ init_mutex = 0
    /\ ctor = <<>>
    /\ line_no = 0
    /\ load_runs = 1

\* no call of encode is under observation
EncodeIdle ==
    /\ enc_a = <<>>
    /\ enc_b = <<>>
    /\ enc_pos = 0
    /\ enc_tokens = <<>>
    /\ enc_adv = <<>>
    /\ enc_pc = "returned"

\* the pool is used through enqueue only: no wait_all, no destructor
PoolIdle ==
    /\ stop = FALSE
    /\ producer = "idle"
    /\ owner = "idle"
    /\ enq_count = 0
    /\ exec_count = <<>>
    /\ throws = <<>>
    /\ rejected = FALSE
    /\ wait_seen = 0

NoStats == [documents_processed |-> 0, pages_processed |-> 0]

\* no call of parse_batch is under observation
BatchIdle ==
    /\ pdf_paths = <<>>
    /\ batch_results = <<>>
    /\ stats = NoStats
    /\ completed = 0
    /\ progress_calls = <<>>
    /\ reg = <<>>
    /\ saved = <<>>

(* ------------------------------------------------------------------ *)
(* Specification of chunk_file over the dispatcher                     *)
(* ------------------------------------------------------------------ *)
\* chunk_file fixes batch_size at 10; parse_streaming takes any ParseOptions, and
\* a batch_size of at least the page count behaves as 10 does on such a document
Init ==
    /\ doc \in DocsOver(StreamOutcomes, MaxStreamPages)
    /\ batch_size \in 1..MaxBatch
    /\ num_threads \in 1..MaxWorkers
    /\ page_limit \in PageLimits
    /\ options \in StreamOptionSets
    /\ encoder = VocabMerges
    /\ tasks = <<>>
    /\ active_tasks = 0
    /\ workers = [w \in 1..num_threads |-> [pc |-> "wait", task |-> NoPage]]
    /\ results = <<>>
    /\ futures = <<>>
    /\ pc = "loop"
    /\ i = 0
    /\ page_idx = 0
    /\ batch_end = 0
    /\ fpos = 1
    /\ pages = <<>>
    /\ page_count = 0
    /\ delivered = <<>>
    /\ stop_at = 0
    /\ stage = "idle"
    /\ annotated_lines = <<>>
    /\ semantic_units = <<>>
    /\ chunks = <<>>
    /\ result = NoResult
    /\ ApiIdle
    /\ VocabLoaded
    /\ EncodeIdle
    /\ PoolIdle
    /\ BatchIdle

Next ==
    \/ \E w \in Workers : WorkerTake(w)
    \/ \E w \in Workers : WorkerRun(w)
    \/ \E w \in Workers : WorkerCount(w)
    \/ BatchStart
    \/ Enqueue
    \/ EnqueueDone
    \/ Collect
    \/ CollectDone
    \/ StreamReturn
    \/ ChunkFileFinish

Spec == Init /\ [][Next]_vars

(* ------------------------------------------------------------------ *)
(* create_hierarchical_chunks_internal, pass by pass, on the pages     *)
(* chunk_file has collected                                            *)
(* ------------------------------------------------------------------ *)
RECURSIVE CollectedFrom(_, _, _)
CollectedFrom(d, p, ps) ==
    IF p >= Cardinality(DOMAIN d) THEN ps
    ELSE CollectedFrom(d, p + 1, CallbackPages(ps, ExtractTask(d, p)))

\* the pages the callback has collected once every page was delivered in order
CollectedPages(d) == CollectedFrom(d, 0, <<>>)

Pipe(from, to) ==
    /\ pc = "returned"
    /\ stage = from
    /\ stage' = to
    /\ UNCHANGED <<apiVars, vocabVars, encVars, inputVars, poolVars, streamVars, pages, page_count, result>>
    /\ UNCHANGED <<lifeVars, batchVars>>

ReturnEmpty ==
    /\ Pipe("start", "measured")
    /\ non_empty_pages(pages) = <<>>
    /\ chunks' = <<>>
    /\ UNCHANGED <<annotated_lines, semantic_units, pc>>

Pass1 ==
    /\ Pipe("start", "annotated")
    /\ non_empty_pages(pages) # <<>>
    /\ annotated_lines' = annotate_lines(non_empty_pages(pages), encoder)
    /\ UNCHANGED <<semantic_units, chunks, pc>>

Pass2 ==
    /\ Pipe("annotated", "units")
    /\ semantic_units' = create_semantic_units(annotated_lines)
    /\ UNCHANGED <<annotated_lines, chunks, pc>>

Pass3 ==
    /\ Pipe("units", "initial")
    /\ chunks' = create_initial_chunks(semantic_units, options.max_tokens)
    /\ UNCHANGED <<annotated_lines, semantic_units, pc>>

Pass4 ==
    /\ Pipe("initial", "overlapped")
    /\ chunks' = add_overlap(chunks, options.overlap_tokens, encoder)
    /\ UNCHANGED <<annotated_lines, semantic_units, pc>>

Pass5 ==
    /\ Pipe("overlapped", "merged")
    /\ chunks' = merge_small_chunks_hierarchically(chunks, options.min_tokens,
                                                   options.max_tokens)
    /\ UNCHANGED <<annotated_lines, semantic_units, pc>>

Pass6 ==
    /\ Pipe("merged", "split")
    /\ chunks' = split_oversized_chunks(chunks, options.max_tokens, encoder)
    /\ UNCHANGED <<annotated_lines, semantic_units, pc>>

Pass7 ==
    /\ Pipe("split", "final")
    /\ chunks' = final_merge_pass(chunks, options.min_tokens, options.max_tokens)
    /\ UNCHANGED <<annotated_lines, semantic_units, pc>>

Remeasure ==
    /\ Pipe("final", "measured")
    /\ chunks' = Recount(chunks, encoder)
    /\ UNCHANGED <<annotated_lines, semantic_units, pc>>

Convert ==
    /\ pc = "returned"
    /\ stage = "measured"
    /\ stage' = "done"
    /\ pc' = "done"
    /\ result' = ChunkingResult(chunks, page_count)
    /\ UNCHANGED <<annotated_lines, semantic_units, chunks>>
    /\ UNCHANGED <<futures, i, page_idx, batch_end, fpos, delivered, stop_at>>
    /\ UNCHANGED <<apiVars, vocabVars, encVars, inputVars, poolVars, pages, page_count>>
    /\ UNCHANGED <<lifeVars, batchVars>>

ChunkInit ==
    /\ doc \in DocsOver(ChunkOutcomes, MaxChunkPages)
    /\ batch_size = 1
    /\ num_threads = 1
    /\ page_limit = 0
    /\ options \in ChunkOptionSets
    /\ encoder \in Vocabularies
    /\ tasks = <<>>
    /\ active_tasks = 0
    /\ workers = [w \in 1..num_threads |-> [pc |-> "wait", task |-> NoPage]]
    /\ results = [p \in DOMAIN doc |-> ExtractTask(doc, p)]
    /\ futures = <<>>
    /\ pc = "returned"
    /\ i = N
    /\ page_idx = N
    /\ batch_end = N
    /\ fpos = 1
    /\ pages = CollectedPages(doc)
    /\ page_count = Len(pages)
    /\ delivered = [k \in 1..N |-> ExtractTask(doc, k - 1)]
    /\ stop_at = 0
    /\ stage = "start"
    /\ annotated_lines = <<>>
    /\ semantic_units = <<>>
    /\ chunks = <<>>
    /\ result = NoResult
    /\ ApiIdle
    /\ VocabLoaded
    /\ EncodeIdle
    /\ PoolIdle
    /\ BatchIdle

ChunkNext ==
    \/ ReturnEmpty
    \/ Pass1
    \/ Pass2
    \/ Pass3
    \/ Pass4
    \/ Pass5
    \/ Pass6
    \/ Pass7
    \/ Remeasure
    \/ Convert

SpecChunk == ChunkInit /\ [][ChunkNext]_vars

(* ------------------------------------------------------------------ *)
(* HierarchicalChunker: constructor, set_options, chunk_file and       *)
(* process_pdf_to_json as whole calls on one object                    *)
(* ------------------------------------------------------------------ *)
MaxApiPages == 2

NoOptions == [max_tokens |-> 0, min_tokens |-> 0, overlap_tokens |-> 0]

\* options that meet the documented constraints and options that break each
ApiOptionSets ==
    {[max_tokens |-> 4, min_tokens |-> 2, overlap_tokens |-> 1],
     [max_tokens |-> 10, min_tokens |-> 10, overlap_tokens |-> 0],
     [max_tokens |-> 4, min_tokens |-> 5, overlap_tokens |-> 0],
     [max_tokens |-> 4, min_tokens |-> 0, overlap_tokens |-> 0],
     [max_tokens |-> 4, min_tokens |-> 2, overlap_tokens |-> 4]}

OutputStates == {"writable", "unopenable", "full"}

\* HierarchicalChunker(options): Impl copies the options
Construct(opts) ==
    /\ ~constructed
    /\ constructed' = TRUE
    /\ options' = opts
    /\ UNCHANGED <<pdf_exists, output_state, output_file, process_ret, error>>
    /\ UNCHANGED <<doc, batch_size, num_threads, page_limit, encoder>>
    /\ UNCHANGED <<vocabVars, encVars, poolVars, streamVars, pages, page_count,
                   pipeVars, result>>
    /\ UNCHANGED <<lifeVars, batchVars>>

set_options(opts) ==
    /\ constructed
    /\ options' = opts
    /\ UNCHANGED <<apiVars, doc, batch_size, num_threads, page_limit, encoder>>
    /\ UNCHANGED <<vocabVars, encVars, poolVars, streamVars, pages, page_count,
                   pipeVars, result>>
    /\ UNCHANGED <<lifeVars, batchVars>>

\* what a whole chunk_file call returns: <<ChunkingResult, error>>;
\* parse_streaming throws when the file does not exist and chunk_file catches it
ChunkFileReturn ==
    IF pdf_exists
    THEN <<ChunkingResult(
               create_hierarchical_chunks_internal(CollectedPages(doc), encoder,
                   options.max_tokens, options.overlap_tokens, options.min_tokens),
               Len(CollectedPages(doc))),
           "">>
    ELSE <<NoResult, "Error chunking PDF: PDF file not found">>

chunk_file ==
    /\ constructed
    /\ result' = ChunkFileReturn[1]
    /\ error' = ChunkFileReturn[2]
    /\ UNCHANGED <<constructed, pdf_exists, output_state, output_file, process_ret>>
    /\ UNCHANGED <<inputVars, vocabVars, encVars, poolVars, streamVars, pages,
                   page_count, pipeVars>>
    /\ UNCHANGED <<lifeVars, batchVars>>

\* the JSON array process_pdf_to_json builds, one object per chunk
JsonOutput(r) ==
    [k \in 1..Len(r.chunks) |->
        [text |-> r.chunks[k].text,
         start_page |-> r.chunks[k].start_page,
         end_page |-> r.chunks[k].end_page,
         page_count |-> r.chunks[k].end_page - r.chunks[k].start_page + 1,
         chunk_index |-> k - 1,
         total_chunks |-> r.total_chunks,
         token_count |-> r.chunks[k].token_count,
         has_major_heading |-> r.chunks[k].has_major_heading,
         min_heading_level |-> r.chunks[k].min_heading_level]]

\* std::ofstream outfile(output_path); outfile << output.dump(2); outfile.close();
\* the stream's state is never tested and the stream does not throw
WriteOutput(state, file, output) ==
    IF state = "writable" THEN [exists |-> TRUE, complete |-> TRUE, chunks |-> output]
    ELSE IF state = "full" THEN [exists |-> TRUE, complete |-> FALSE, chunks |-> <<>>]
    ELSE file

process_pdf_to_json ==
    /\ constructed
    /\ result' = ChunkFileReturn[1]
    /\ error' = ChunkFileReturn[2]
    /\ IF ChunkFileReturn[2] # ""
       THEN /\ process_ret' = "false"
            /\ UNCHANGED output_file
       ELSE /\ output_file' = WriteOutput(output_state, output_file,
                                          JsonOutput(ChunkFileReturn[1]))
            /\ process_ret' = "true"
    /\ UNCHANGED <<constructed, pdf_exists, output_state>>
    /\ UNCHANGED <<inputVars, vocabVars, encVars, poolVars, streamVars, pages,
                   page_count, pipeVars>>
    /\ UNCHANGED <<lifeVars, batchVars>>

ApiInit ==
    /\ doc \in DocsOver(StreamOutcomes, MaxApiPages)
    /\ batch_size = 1
    /\ num_threads = 1
    /\ page_limit = 0
    /\ options = NoOptions
    /\ encoder = VocabMerges
    /\ tasks = <<>>
    /\ active_tasks = 0
    /\ workers = [w \in 1..num_threads |-> [pc |-> "wait", task |-> NoPage]]
    /\ results = <<>>
    /\ futures = <<>>
    /\ pc = "loop"
    /\ i = 0
    /\ page_idx = 0
    /\ batch_end = 0
    /\ fpos = 1
    /\ pages = <<>>
    /\ page_count = 0
    /\ delivered = <<>>
    /\ stop_at = 0
    /\ stage = "idle"
    /\ annotated_lines = <<>>
    /\ semantic_units = <<>>
    /\ chunks = <<>>
    /\ result = NoResult
    /\ constructed = FALSE
    /\ pdf_exists \in BOOLEAN
    /\ output_state \in OutputStates
    /\ output_file = NoFile
    /\ process_ret = "none"
    /\ error = ""
    /\ VocabLoaded
    /\ EncodeIdle
    /\ PoolIdle
    /\ BatchIdle

ApiNext ==
    \/ \E opts \in ApiOptionSets : Construct(opts)
    \/ \E opts \in ApiOptionSets : set_options(opts)
    \/ chunk_file
    \/ process_pdf_to_json

SpecApi == ApiInit /\ [][ApiNext]_vars

(* ------------------------------------------------------------------ *)
(* TiktokenTokenizer(): threads constructing tokenizers concurrently   *)
(* ------------------------------------------------------------------ *)
MaxCtorThreads == 3

BlobLines == GetLines(VocabBlob)

Threads == DOMAIN ctor

\* if (vocab.initialized) return;  -- read without the mutex
CtorCheck(t) ==
    /\ ctor[t] = "check"
    /\ ctor' = [ctor EXCEPT ![t] = IF vocab_initialized THEN "returned" ELSE "lock"]
    /\ UNCHANGED <<vocab_initialized, decoder, init_mutex, line_no, load_runs>>
    /\ UNCHANGED <<apiVars, encVars, inputVars, poolVars, streamVars, pages,
                   page_count, pipeVars, result>>
    /\ UNCHANGED <<lifeVars, batchVars>>

\* std::lock_guard<std::mutex> lock(vocab.init_mutex);
CtorLock(t) ==
    /\ ctor[t] = "lock"
    /\ init_mutex = 0
    /\ init_mutex' = t
    /\ ctor' = [ctor EXCEPT ![t] = "recheck"]
    /\ UNCHANGED <<vocab_initialized, decoder, line_no, load_runs>>
    /\ UNCHANGED <<apiVars, encVars, inputVars, poolVars, streamVars, pages,
                   page_count, pipeVars, result>>
    /\ UNCHANGED <<lifeVars, batchVars>>

\* if (vocab.initialized) return; // Double-check  -- the return unlocks
CtorRecheck(t) ==
    /\ ctor[t] = "recheck"
    /\ IF vocab_initialized
       THEN /\ ctor' = [ctor EXCEPT ![t] = "returned"]
            /\ init_mutex' = 0
            /\ UNCHANGED <<line_no, load_runs>>
       ELSE /\ ctor' = [ctor EXCEPT ![t] = "load"]
            /\ line_no' = 0
            /\ load_runs' = load_runs + 1
            /\ UNCHANGED init_mutex
    /\ UNCHANGED <<vocab_initialized, decoder>>
    /\ UNCHANGED <<apiVars, encVars, inputVars, poolVars, streamVars, pages,
                   page_count, pipeVars, result>>
    /\ UNCHANGED <<lifeVars, batchVars>>

\* one iteration of while (std::getline(stream, line))
CtorLoadLine(t) ==
    /\ ctor[t] = "load"
    /\ line_no < Len(BlobLines)
    /\ encoder' = LoadLine(BlobLines[line_no + 1], encoder, decoder)[1]
    /\ decoder' = LoadLine(BlobLines[line_no + 1], encoder, decoder)[2]
    /\ line_no' = line_no + 1
    /\ UNCHANGED <<vocab_initialized, init_mutex, ctor, load_runs>>
    /\ UNCHANGED <<apiVars, encVars, poolVars, streamVars, pages, page_count,
                   pipeVars, result>>
    /\ UNCHANGED <<doc, batch_size, num_threads, page_limit, options>>
    /\ UNCHANGED <<lifeVars, batchVars>>

\* vocab.initialized = true;  initialized is a plain bool that CtorCheck reads
\* without the mutex: the store races with that read, nothing orders it after
\* the insertions for such a reader, and it may become visible before them
CtorStoreInitialized(t) ==
    /\ ctor[t] = "load"
    /\ ~vocab_initialized
    /\ vocab_initialized' = TRUE
    /\ UNCHANGED <<decoder, init_mutex, ctor, line_no, load_runs>>
    /\ UNCHANGED <<apiVars, encVars, inputVars, poolVars, streamVars, pages,
                   page_count, pipeVars, result>>
    /\ UNCHANGED <<lifeVars, batchVars>>

\* the end of ensure_vocabulary_loaded: every store was made, the guard unlocks
CtorUnlock(t) ==
    /\ ctor[t] = "load"
    /\ line_no = Len(BlobLines)
    /\ vocab_initialized
    /\ init_mutex' = 0
    /\ ctor' = [ctor EXCEPT ![t] = "returned"]
    /\ UNCHANGED <<vocab_initialized, decoder, line_no, load_runs>>
    /\ UNCHANGED <<apiVars, encVars, inputVars, poolVars, streamVars, pages,
                   page_count, pipeVars, result>>
    /\ UNCHANGED <<lifeVars, batchVars>>

VocabInit ==
    /\ doc = <<>>
    /\ batch_size = 1
    /\ num_threads = 1
    /\ page_limit = 0
    /\ options = NoOptions
    /\ encoder = <<>>
    /\ tasks = <<>>
    /\ active_tasks = 0
    /\ workers = [w \in 1..num_threads |-> [pc |-> "wait", task |-> NoPage]]
    /\ results = <<>>
    /\ futures = <<>>
    /\ pc = "loop"
    /\ i = 0
    /\ page_idx = 0
    /\ batch_end = 0
    /\ fpos = 1
    /\ pages = <<>>
    /\ page_count = 0
    /\ delivered = <<>>
    /\ stop_at = 0
    /\ stage = "idle"
    /\ annotated_lines = <<>>
    /\ semantic_units = <<>>
    /\ chunks = <<>>
    /\ result = NoResult
    /\ constructed = FALSE
    /\ pdf_exists = TRUE
    /\ output_state = "writable"
    /\ output_file = NoFile
    /\ process_ret = "none"
    /\ error = ""
    /\ vocab_initialized = FALSE
    /\ decoder = <<>>
    /\ init_mutex = 0
    /\ \E n \in 1..MaxCtorThreads : ctor = [t \in 1..n |-> "check"]
    /\ line_no = 0
    /\ load_runs = 0
    /\ EncodeIdle
    /\ PoolIdle
    /\ BatchIdle

VocabNext ==
    \/ \E t \in Threads : CtorCheck(t)
    \/ \E t \in Threads : CtorLock(t)
    \/ \E t \in Threads : CtorRecheck(t)
    \/ \E t \in Threads : CtorLoadLine(t)
    \/ \E t \in Threads : CtorStoreInitialized(t)
    \/ \E t \in Threads : CtorUnlock(t)

SpecVocab == VocabInit /\ [][VocabNext]_vars

(* ------------------------------------------------------------------ *)
(* TiktokenTokenizer::encode, one loop iteration at a time             *)
(* ------------------------------------------------------------------ *)
MaxTextLen == 4

Letters == {97, 98}

ShortTexts == UNION {[1..n -> Letters] : n \in 0..MaxTextLen}

Text20 ==
    <<97, 97, 97, 97, 97, 97, 97, 97, 97, 97, 97, 97, 97, 97, 97, 97, 97, 97, 97, 97>>

Text21 ==
    <<97, 97, 97, 97, 97, 97, 97, 97, 97, 97, 97, 97, 97, 97, 97, 97, 97, 97, 97, 97, 97>>

EncodeTexts == ShortTexts \cup {Text21}

\* tokens "ab" and "bbbb", the empty token, and tokens of 20 and of 21 bytes
VocabEncode ==
    (<<97, 98>> :> 256) @@ (<<98, 98, 98, 98>> :> 257) @@ (<<>> :> 258)
        @@ (Text20 :> 259) @@ (Text21 :> 260)

EncodeVocabularies == {VocabBytes, VocabEncode}

\* the argument of the call
EncText == enc_a \o enc_b

\* best_len > 0: push the token found, pos += best_len
EncodeMatch ==
    /\ enc_pc = "loop"
    /\ enc_pos < Len(EncText)
    /\ LET best_len == BestLen(EncText, enc_pos + 1, encoder)
       IN  /\ best_len > 0
           /\ enc_tokens' = Append(enc_tokens,
                                   encoder[SubSeq(EncText, enc_pos + 1, enc_pos + best_len)])
           /\ enc_pos' = enc_pos + best_len
           /\ enc_adv' = Append(enc_adv, best_len)
    /\ UNCHANGED <<enc_a, enc_b, enc_pc>>
    /\ UNCHANGED <<apiVars, vocabVars, inputVars, poolVars, streamVars, pages,
                   page_count, pipeVars, result>>
    /\ UNCHANGED <<lifeVars, batchVars>>

\* no match: push the byte, pos++
EncodeFallback ==
    /\ enc_pc = "loop"
    /\ enc_pos < Len(EncText)
    /\ BestLen(EncText, enc_pos + 1, encoder) = 0
    /\ enc_tokens' = Append(enc_tokens, EncText[enc_pos + 1])
    /\ enc_pos' = enc_pos + 1
    /\ enc_adv' = Append(enc_adv, 1)
    /\ UNCHANGED <<enc_a, enc_b, enc_pc>>
    /\ UNCHANGED <<apiVars, vocabVars, inputVars, poolVars, streamVars, pages,
                   page_count, pipeVars, result>>
    /\ UNCHANGED <<lifeVars, batchVars>>

\* while (pos < text.length()) fails: return tokens
EncodeReturn ==
    /\ enc_pc = "loop"
    /\ enc_pos >= Len(EncText)
    /\ enc_pc' = "returned"
    /\ UNCHANGED <<enc_a, enc_b, enc_pos, enc_tokens, enc_adv>>
    /\ UNCHANGED <<apiVars, vocabVars, inputVars, poolVars, streamVars, pages,
                   page_count, pipeVars, result>>
    /\ UNCHANGED <<lifeVars, batchVars>>

EncodeInit ==
    /\ doc = <<>>
    /\ batch_size = 1
    /\ num_threads = 1
    /\ page_limit = 0
    /\ options = NoOptions
    /\ encoder \in EncodeVocabularies
    /\ tasks = <<>>
    /\ active_tasks = 0
    /\ workers = [w \in 1..num_threads |-> [pc |-> "wait", task |-> NoPage]]
    /\ results = <<>>
    /\ futures = <<>>
    /\ pc = "loop"
    /\ i = 0
    /\ page_idx = 0
    /\ batch_end = 0
    /\ fpos = 1
    /\ pages = <<>>
    /\ page_count = 0
    /\ delivered = <<>>
    /\ stop_at = 0
    /\ stage = "idle"
    /\ annotated_lines = <<>>
    /\ semantic_units = <<>>
    /\ chunks = <<>>
    /\ result = NoResult
    /\ constructed = FALSE
    /\ pdf_exists = TRUE
    /\ output_state = "writable"
    /\ output_file = NoFile
    /\ process_ret = "none"
    /\ error = ""
    /\ VocabLoaded
    /\ PoolIdle
    /\ BatchIdle
    /\ enc_a \in EncodeTexts
    /\ enc_b \in EncodeTexts
    /\ enc_pos = 0
    /\ enc_tokens = <<>>
    /\ enc_adv = <<>>
    /\ enc_pc = "loop"

EncodeNext ==
    \/ EncodeMatch
    \/ EncodeFallback
    \/ EncodeReturn

SpecEncode == EncodeInit /\ [][EncodeNext]_vars

(* ------------------------------------------------------------------ *)
(* ThreadPool: enqueue, the worker loop with its condition variables,  *)
(* wait_all and the destructor                                         *)
(* One thread (producer) calls enqueue; another (owner) calls wait_all *)
(* and destroys the pool.  A block of code that holds queue_mutex from *)
(* lock to unlock is one step; wait_all keeps the mutex between        *)
(* evaluating its predicate and blocking on finished, and the worker's *)
(* active_tasks-- and finished.notify_all() run without the mutex.     *)
(* ------------------------------------------------------------------ *)
MaxPoolWorkers == 2
MaxPoolTasks == 2

\* no chunk_file is running on the pool
StreamIdle ==
    /\ doc = <<>>
    /\ batch_size = 1
    /\ page_limit = 0
    /\ options \in StreamOptionSets
    /\ encoder = VocabMerges
    /\ futures = <<>>
    /\ pc = "idle"
    /\ i = 0
    /\ page_idx = 0
    /\ batch_end = 0
    /\ fpos = 1
    /\ pages = <<>>
    /\ page_count = 0
    /\ delivered = <<>>
    /\ stop_at = 0
    /\ stage = "idle"
    /\ annotated_lines = <<>>
    /\ semantic_units = <<>>
    /\ chunks = <<>>
    /\ result = NoResult

\* queue_mutex is free unless wait_all holds it across steps
MutexFree == owner # "wait_pre"

\* the predicate of condition.wait in the worker loop
WorkerPredicate == stop \/ tasks # <<>>

\* FinishedPredicate looking at the queue alone
FinishedQueueEmpty == tasks = <<>>

\* the predicate of finished.wait in wait_all
FinishedPredicate == tasks = <<>> /\ active_tasks = 0

\* the shared state a packaged_task leaves for its future
TaskOutcome(t) == IF throws[t] THEN "exception" ELSE "value"

\* WorkerExits leaving on stop alone
WorkerExitsOnStop == stop

\* if(this->stop && this->tasks.empty()) return;
WorkerExits == stop /\ tasks = <<>>

Blocked == {w \in Workers : workers[w].pc = "blocked"}

\* lock; predicate true with a task queued: pop it; unlock
PoolTake(w) ==
    /\ workers[w].pc = "wait"
    /\ MutexFree
    /\ WorkerPredicate
    /\ ~WorkerExits
    /\ workers' = [workers EXCEPT ![w] = [pc |-> "run", task |-> Head(tasks)]]
    /\ tasks' = Tail(tasks)
    /\ UNCHANGED <<active_tasks, results, lifeVars>>
    /\ UNCHANGED <<inputVars, streamVars, pages, page_count, pipeVars, result>>
    /\ UNCHANGED <<apiVars, vocabVars, encVars, batchVars>>

\* lock; predicate false: condition.wait releases the mutex and blocks
PoolBlock(w) ==
    /\ workers[w].pc = "wait"
    /\ MutexFree
    /\ ~WorkerPredicate
    /\ workers' = [workers EXCEPT ![w].pc = "blocked"]
    /\ UNCHANGED <<tasks, active_tasks, results, lifeVars>>
    /\ UNCHANGED <<inputVars, streamVars, pages, page_count, pipeVars, result>>
    /\ UNCHANGED <<apiVars, vocabVars, encVars, batchVars>>

\* lock; stop and nothing queued: the worker thread returns
PoolExit(w) ==
    /\ workers[w].pc = "wait"
    /\ MutexFree
    /\ WorkerPredicate
    /\ WorkerExits
    /\ workers' = [workers EXCEPT ![w].pc = "exited"]
    /\ UNCHANGED <<tasks, active_tasks, results, lifeVars>>
    /\ UNCHANGED <<inputVars, streamVars, pages, page_count, pipeVars, result>>
    /\ UNCHANGED <<apiVars, vocabVars, encVars, batchVars>>

\* task(): the packaged_task runs the callable and keeps its value or exception
PoolRun(w) ==
    /\ workers[w].pc = "run"
    /\ exec_count' = [exec_count EXCEPT ![workers[w].task] = @ + 1]
    /\ results' = results @@ (workers[w].task :> TaskOutcome(workers[w].task))
    /\ workers' = [workers EXCEPT ![w].pc = "ran"]
    /\ UNCHANGED <<tasks, active_tasks>>
    /\ UNCHANGED <<stop, producer, owner, enq_count, throws, rejected, wait_seen>>
    /\ UNCHANGED <<inputVars, streamVars, pages, page_count, pipeVars, result>>
    /\ UNCHANGED <<apiVars, vocabVars, encVars, batchVars>>

\* active_tasks--
PoolCount(w) ==
    /\ workers[w].pc = "ran"
    /\ active_tasks' = active_tasks - 1
    /\ workers' = [workers EXCEPT ![w] = [pc |-> "counted", task |-> NoPage]]
    /\ UNCHANGED <<tasks, results, lifeVars>>
    /\ UNCHANGED <<inputVars, streamVars, pages, page_count, pipeVars, result>>
    /\ UNCHANGED <<apiVars, vocabVars, encVars, batchVars>>

\* finished.notify_all(): wakes wait_all only if it is blocked on finished now
PoolNotifyFinished(w) ==
    /\ workers[w].pc = "counted"
    /\ owner' = IF owner = "wait_blocked" THEN "wait_woken" ELSE owner
    /\ workers' = [workers EXCEPT ![w].pc = "wait"]
    /\ UNCHANGED <<tasks, active_tasks, results>>
    /\ UNCHANGED <<stop, producer, enq_count, exec_count, throws, rejected, wait_seen>>
    /\ UNCHANGED <<inputVars, streamVars, pages, page_count, pipeVars, result>>
    /\ UNCHANGED <<apiVars, vocabVars, encVars, batchVars>>

\* Counted leaving active_tasks as it was
CountedNot(n) == n

\* active_tasks++ of enqueue
Counted(n) == n + 1

\* enqueue up to its unlock: throws on a stopped pool, else counts and queues the task
PoolEnqueue(t) ==
    /\ producer = "idle"
    /\ owner # "destroyed"
    /\ MutexFree
    /\ IF stop
       THEN /\ rejected' = TRUE
            /\ UNCHANGED <<tasks, active_tasks, enq_count, exec_count, throws, producer>>
       ELSE /\ enq_count < MaxPoolTasks
            /\ active_tasks' = Counted(active_tasks)
            /\ tasks' = Append(tasks, enq_count + 1)
            /\ enq_count' = enq_count + 1
            /\ exec_count' = Append(exec_count, 0)
            /\ throws' = Append(throws, t)
            /\ producer' = "notify"
            /\ UNCHANGED rejected
    /\ UNCHANGED <<workers, results, stop, owner, wait_seen>>
    /\ UNCHANGED <<inputVars, streamVars, pages, page_count, pipeVars, result>>
    /\ UNCHANGED <<apiVars, vocabVars, encVars, batchVars>>

\* condition.notify_one() of enqueue: wakes one blocked worker, if there is one
PoolEnqueueNotify(w) ==
    /\ producer = "notify"
    /\ IF Blocked = {}
       THEN UNCHANGED workers
       ELSE /\ w \in Blocked
            /\ workers' = [workers EXCEPT ![w].pc = "wait"]
    /\ producer' = "idle"
    /\ UNCHANGED <<tasks, active_tasks, results>>
    /\ UNCHANGED <<stop, owner, enq_count, exec_count, throws, rejected, wait_seen>>
    /\ UNCHANGED <<inputVars, streamVars, pages, page_count, pipeVars, result>>
    /\ UNCHANGED <<apiVars, vocabVars, encVars, batchVars>>

\* wait_all: lock (or wake up and lock again) and evaluate the predicate;
\* true: return; false: still holding the mutex, about to block
WaitAllCheck ==
    /\ owner \in {"idle", "waited", "wait_woken"}
    /\ wait_seen' = IF owner = "wait_woken" THEN wait_seen ELSE enq_count
    /\ owner' = IF FinishedPredicate THEN "waited" ELSE "wait_pre"
    /\ UNCHANGED <<poolVars, stop, producer, enq_count, exec_count, throws, rejected>>
    /\ UNCHANGED <<inputVars, streamVars, pages, page_count, pipeVars, result>>
    /\ UNCHANGED <<apiVars, vocabVars, encVars, batchVars>>

\* finished.wait releases the mutex and blocks until notified
WaitAllBlock ==
    /\ owner = "wait_pre"
    /\ owner' = "wait_blocked"
    /\ UNCHANGED <<poolVars, stop, producer, enq_count, exec_count, throws, rejected, wait_seen>>
    /\ UNCHANGED <<inputVars, streamVars, pages, page_count, pipeVars, result>>
    /\ UNCHANGED <<apiVars, vocabVars, encVars, batchVars>>

\* ~ThreadPool: { lock; stop = true; }
\* the client destroys the pool while no call of enqueue that was accepted is
\* still on its way to notify_one
DtorStop ==
    /\ owner \in {"idle", "waited"}
    /\ producer = "idle"
    /\ stop' = TRUE
    /\ owner' = "dtor_notify"
    /\ wait_seen' = 0
    /\ UNCHANGED <<poolVars, producer, enq_count, exec_count, throws, rejected>>
    /\ UNCHANGED <<inputVars, streamVars, pages, page_count, pipeVars, result>>
    /\ UNCHANGED <<apiVars, vocabVars, encVars, batchVars>>

\* ~ThreadPool: condition.notify_all()
DtorNotifyAll ==
    /\ owner = "dtor_notify"
    /\ workers' = [w \in Workers |->
                     IF workers[w].pc = "blocked" THEN [workers[w] EXCEPT !.pc = "wait"]
                     ELSE workers[w]]
    /\ owner' = "dtor_join"
    /\ UNCHANGED <<tasks, active_tasks, results>>
    /\ UNCHANGED <<stop, producer, enq_count, exec_count, throws, rejected, wait_seen>>
    /\ UNCHANGED <<inputVars, streamVars, pages, page_count, pipeVars, result>>
    /\ UNCHANGED <<apiVars, vocabVars, encVars, batchVars>>

\* ~ThreadPool: the loop of join() ends once every worker thread has returned
DtorJoin ==
    /\ owner = "dtor_join"
    /\ \A w \in Workers : workers[w].pc = "exited"
    /\ owner' = "destroyed"
    /\ UNCHANGED <<poolVars, stop, producer, enq_count, exec_count, throws, rejected, wait_seen>>
    /\ UNCHANGED <<inputVars, streamVars, pages, page_count, pipeVars, result>>
    /\ UNCHANGED <<apiVars, vocabVars, encVars, batchVars>>

PoolInit ==
    /\ num_threads \in 1..MaxPoolWorkers
    /\ tasks = <<>>
    /\ active_tasks = 0
    /\ workers = [w \in 1..num_threads |-> [pc |-> "wait", task |-> NoPage]]
    /\ results = <<>>
    /\ PoolIdle
    /\ StreamIdle
    /\ ApiIdle
    /\ VocabLoaded
    /\ EncodeIdle
    /\ BatchIdle

PoolNext ==
    \/ \E w \in Workers : PoolTake(w)
    \/ \E w \in Workers : PoolBlock(w)
    \/ \E w \in Workers : PoolExit(w)
    \/ \E w \in Workers : PoolRun(w)
    \/ \E w \in Workers : PoolCount(w)
    \/ \E w \in Workers : PoolNotifyFinished(w)
    \/ \E t \in BOOLEAN : PoolEnqueue(t)
    \/ \E w \in Workers : PoolEnqueueNotify(w)
    \/ WaitAllCheck
    \/ WaitAllBlock
    \/ DtorStop
    \/ DtorNotifyAll
    \/ DtorJoin

SpecPool == PoolInit /\ [][PoolNext]_vars

\* the scheduler runs every thread that can take a step; whether a client calls
\* enqueue, wait_all or the destructor at all is the client's choice
PoolFairness ==
    /\ \A w \in 1..MaxPoolWorkers :
          /\ WF_vars(w \in Workers /\ PoolTake(w))
          /\ WF_vars(w \in Workers /\ PoolBlock(w))
          /\ WF_vars(w \in Workers /\ PoolExit(w))
          /\ WF_vars(w \in Workers /\ PoolRun(w))
          /\ WF_vars(w \in Workers /\ PoolCount(w))
          /\ WF_vars(w \in Workers /\ PoolNotifyFinished(w))
    /\ WF_vars(\E w \in Workers : PoolEnqueueNotify(w))
    /\ WF_vars(owner # "idle" /\ owner # "waited" /\ WaitAllCheck)
    /\ WF_vars(WaitAllBlock)
    /\ WF_vars(DtorNotifyAll)
    /\ WF_vars(DtorJoin)

SpecPoolLive == PoolInit /\ [][PoolNext]_vars /\ PoolFairness

(* ------------------------------------------------------------------ *)
(* FastPdfParser::Impl::parse_batch with the task it enqueues per path *)
(* (parse, the update of stats_, the push of the result, the progress  *)
(* callback), and the save loop of process_directory                   *)
(* A path is named by its position in pdf_paths.  parse updates stats_ *)
(* from several workers without synchronisation: each read and each     *)
(* write of a counter is a step of its own.                             *)
(* ------------------------------------------------------------------ *)
MaxBatchDocs == 2
MaxBatchWorkers == 2

\* what parse does on a path: throws, or returns a document of some pages
ParseThrows == [ok |-> FALSE, pages |-> 0]
PathOutcomes == {ParseThrows, [ok |-> TRUE, pages |-> 2]}

PathsOver(n) == UNION {[1..k -> PathOutcomes] : k \in 0..n}

\* the JSON document parse returns for path k
ParsedResult(k) == [file |-> k, error |-> FALSE, pages |-> pdf_paths[k].pages]

\* the object the catch block builds for path k
ErrorResult(k) == [file |-> k, error |-> TRUE, pages |-> 0]

\* CompletedAfter without the increment
CompletedStays(n) == n

\* completed++
CompletedAfter(n) == n + 1

BatchSubmit ==
    /\ pc = "enqueue"
    /\ page_idx < Len(pdf_paths)
    /\ futures' = Append(futures, page_idx + 1)
    /\ tasks' = Append(tasks, page_idx + 1)
    /\ active_tasks' = active_tasks + 1
    /\ page_idx' = page_idx + 1
    /\ UNCHANGED <<workers, results, pc, i, batch_end, fpos, delivered, stop_at>>
    /\ UNCHANGED <<inputVars, pages, page_count, pipeVars, result>>
    /\ UNCHANGED <<apiVars, vocabVars, encVars, lifeVars, batchVars>>

BatchSubmitDone ==
    /\ pc = "enqueue"
    /\ page_idx >= Len(pdf_paths)
    /\ pc' = "get"
    /\ fpos' = 1
    /\ UNCHANGED <<poolVars, futures, i, page_idx, batch_end, delivered, stop_at>>
    /\ UNCHANGED <<inputVars, pages, page_count, pipeVars, result>>
    /\ UNCHANGED <<apiVars, vocabVars, encVars, lifeVars, batchVars>>

\* parse up to the update of stats_; a throw lands in the catch block
BatchParse(w) ==
    /\ workers[w].pc = "run"
    /\ workers' = [workers EXCEPT ![w].pc =
                      IF pdf_paths[workers[w].task].ok THEN "read_docs" ELSE "caught"]
    /\ UNCHANGED <<tasks, active_tasks, results, streamVars>>
    /\ UNCHANGED <<inputVars, pages, page_count, pipeVars, result>>
    /\ UNCHANGED <<apiVars, vocabVars, encVars, lifeVars, batchVars>>

\* stats_["documents_processed"].get<int>()
ReadDocuments(w) ==
    /\ workers[w].pc = "read_docs"
    /\ reg' = [reg EXCEPT ![w] = stats.documents_processed]
    /\ workers' = [workers EXCEPT ![w].pc = "write_docs"]
    /\ UNCHANGED <<tasks, active_tasks, results, streamVars>>
    /\ UNCHANGED <<pdf_paths, batch_results, stats, completed, progress_calls, saved>>
    /\ UNCHANGED <<inputVars, pages, page_count, pipeVars, result>>
    /\ UNCHANGED <<apiVars, vocabVars, encVars, lifeVars>>

\* stats_["documents_processed"] = ... + 1
WriteDocuments(w) ==
    /\ workers[w].pc = "write_docs"
    /\ stats' = [stats EXCEPT !.documents_processed = reg[w] + 1]
    /\ reg' = [reg EXCEPT ![w] = 0]
    /\ workers' = [workers EXCEPT ![w].pc = "read_pages"]
    /\ UNCHANGED <<tasks, active_tasks, results, streamVars>>
    /\ UNCHANGED <<pdf_paths, batch_results, completed, progress_calls, saved>>
    /\ UNCHANGED <<inputVars, pages, page_count, pipeVars, result>>
    /\ UNCHANGED <<apiVars, vocabVars, encVars, lifeVars>>

\* stats_["pages_processed"].get<int>()
ReadPages(w) ==
    /\ workers[w].pc = "read_pages"
    /\ reg' = [reg EXCEPT ![w] = stats.pages_processed]
    /\ workers' = [workers EXCEPT ![w].pc = "write_pages"]
    /\ UNCHANGED <<tasks, active_tasks, results, streamVars>>
    /\ UNCHANGED <<pdf_paths, batch_results, stats, completed, progress_calls, saved>>
    /\ UNCHANGED <<inputVars, pages, page_count, pipeVars, result>>
    /\ UNCHANGED <<apiVars, vocabVars, encVars, lifeVars>>

\* stats_["pages_processed"] = ... + raw_output["pages"].size(); the update of
\* total_processing_time_ms that follows is left out; parse returns
WritePages(w) ==
    /\ workers[w].pc = "write_pages"
    /\ stats' = [stats EXCEPT !.pages_processed = reg[w] + pdf_paths[workers[w].task].pages]
    /\ reg' = [reg EXCEPT ![w] = 0]
    /\ workers' = [workers EXCEPT ![w].pc = "push"]
    /\ UNCHANGED <<tasks, active_tasks, results, streamVars>>
    /\ UNCHANGED <<pdf_paths, batch_results, completed, progress_calls, saved>>
    /\ UNCHANGED <<inputVars, pages, page_count, pipeVars, result>>
    /\ UNCHANGED <<apiVars, vocabVars, encVars, lifeVars>>

\* results.push_back under results_mutex, from the try or from the catch block
PushResult(w) ==
    /\ workers[w].pc \in {"push", "caught"}
    /\ batch_results' = Append(batch_results,
                               IF workers[w].pc = "push" THEN ParsedResult(workers[w].task)
                               ELSE ErrorResult(workers[w].task))
    /\ workers' = [workers EXCEPT ![w].pc = "completed"]
    /\ UNCHANGED <<tasks, active_tasks, results, streamVars>>
    /\ UNCHANGED <<pdf_paths, stats, completed, progress_calls, reg, saved>>
    /\ UNCHANGED <<inputVars, pages, page_count, pipeVars, result>>
    /\ UNCHANGED <<apiVars, vocabVars, encVars, lifeVars>>

\* completed++
CountCompleted(w) ==
    /\ workers[w].pc = "completed"
    /\ completed' = CompletedAfter(completed)
    /\ workers' = [workers EXCEPT ![w].pc = "progress"]
    /\ UNCHANGED <<tasks, active_tasks, results, streamVars>>
    /\ UNCHANGED <<pdf_paths, batch_results, stats, progress_calls, reg, saved>>
    /\ UNCHANGED <<inputVars, pages, page_count, pipeVars, result>>
    /\ UNCHANGED <<apiVars, vocabVars, encVars, lifeVars>>

\* progress(completed, pdf_paths.size()) with completed loaded anew; the task
\* returns and its future becomes ready
ProgressCall(w) ==
    /\ workers[w].pc = "progress"
    /\ progress_calls' = Append(progress_calls, <<completed, Len(pdf_paths)>>)
    /\ results' = results @@ (workers[w].task :> TRUE)
    /\ workers' = [workers EXCEPT ![w].pc = "ran"]
    /\ UNCHANGED <<tasks, active_tasks, streamVars>>
    /\ UNCHANGED <<pdf_paths, batch_results, stats, completed, reg, saved>>
    /\ UNCHANGED <<inputVars, pages, page_count, pipeVars, result>>
    /\ UNCHANGED <<apiVars, vocabVars, encVars, lifeVars>>

\* future.get() in submission order
BatchGet ==
    /\ pc = "get"
    /\ fpos <= Len(futures)
    /\ futures[fpos] \in DOMAIN results
    /\ fpos' = fpos + 1
    /\ UNCHANGED <<poolVars, futures, pc, i, page_idx, batch_end, delivered, stop_at>>
    /\ UNCHANGED <<inputVars, pages, page_count, pipeVars, result>>
    /\ UNCHANGED <<apiVars, vocabVars, encVars, lifeVars, batchVars>>

\* return results
BatchReturn ==
    /\ pc = "get"
    /\ fpos > Len(futures)
    /\ pc' = "returned"
    /\ UNCHANGED <<poolVars, futures, i, page_idx, batch_end, fpos, delivered, stop_at>>
    /\ UNCHANGED <<inputVars, pages, page_count, pipeVars, result>>
    /\ UNCHANGED <<apiVars, vocabVars, encVars, lifeVars, batchVars>>

\* iteration k of the save loop: results[k] is reported or written under the
\* name of pdf_files[k]
SaveStep(rs, k) == [named |-> k, from |-> rs[k].file, error |-> rs[k].error]

\* process_directory after parse_batch has returned
ProcessDirectorySave ==
    /\ pc = "returned"
    /\ saved' = [k \in 1..Len(batch_results) |-> SaveStep(batch_results, k)]
    /\ pc' = "done"
    /\ UNCHANGED <<poolVars, futures, i, page_idx, batch_end, fpos, delivered, stop_at>>
    /\ UNCHANGED <<pdf_paths, batch_results, stats, completed, progress_calls, reg>>
    /\ UNCHANGED <<inputVars, pages, page_count, pipeVars, result>>
    /\ UNCHANGED <<apiVars, vocabVars, encVars, lifeVars>>

BatchInit ==
    /\ pdf_paths \in PathsOver(MaxBatchDocs)
    /\ num_threads \in 1..MaxBatchWorkers
    /\ doc = <<>>
    /\ batch_size = 1
    /\ page_limit = 0
    /\ options \in StreamOptionSets
    /\ encoder = VocabMerges
    /\ tasks = <<>>
    /\ active_tasks = 0
    /\ workers = [w \in 1..num_threads |-> [pc |-> "wait", task |-> NoPage]]
    /\ results = <<>>
    /\ futures = <<>>
    /\ pc = "enqueue"
    /\ i = 0
    /\ page_idx = 0
    /\ batch_end = 0
    /\ fpos = 1
    /\ pages = <<>>
    /\ page_count = 0
    /\ delivered = <<>>
    /\ stop_at = 0
    /\ stage = "idle"
    /\ annotated_lines = <<>>
    /\ semantic_units = <<>>
    /\ chunks = <<>>
    /\ result = NoResult
    /\ batch_results = <<>>
    /\ stats = NoStats
    /\ completed = 0
    /\ progress_calls = <<>>
    /\ reg = [w \in 1..num_threads |-> 0]
    /\ saved = <<>>
    /\ ApiIdle
    /\ VocabLoaded
    /\ EncodeIdle
    /\ PoolIdle

BatchNext ==
    \/ BatchSubmit
    \/ BatchSubmitDone
    \/ \E w \in Workers : WorkerTake(w)
    \/ \E w \in Workers : BatchParse(w)
    \/ \E w \in Workers : ReadDocuments(w)
    \/ \E w \in Workers : WriteDocuments(w)
    \/ \E w \in Workers : ReadPages(w)
    \/ \E w \in Workers : WritePages(w)
    \/ \E w \in Workers : PushResult(w)
    \/ \E w \in Workers : CountCompleted(w)
    \/ \E w \in Workers : ProgressCall(w)
    \/ \E w \in Workers : WorkerCount(w)
    \/ BatchGet
    \/ BatchReturn
    \/ ProcessDirectorySave

SpecBatch == BatchInit /\ [][BatchNext]_vars

(* ------------------------------------------------------------------ *)
(* parse_streaming on a FastPdfParser built from any ParseOptions:     *)
(* thread_count and batch_size are size_t and Impl::Impl hands          *)
(* thread_count to the ThreadPool as it is (the default is              *)
(* hardware_concurrency(), which may be 0)                              *)
(* ------------------------------------------------------------------ *)
MaxOptPages == 2
MaxOptBatch == 2
MaxOptThreads == 2

StreamInit ==
    /\ doc \in DocsOver(StreamOutcomes, MaxOptPages)
    /\ batch_size \in 0..MaxOptBatch
    /\ num_threads \in 0..MaxOptThreads
    /\ page_limit = 0
    /\ options \in StreamOptionSets
    /\ encoder = VocabMerges
    /\ tasks = <<>>
    /\ active_tasks = 0
    /\ workers = [w \in 1..num_threads |-> [pc |-> "wait", task |-> NoPage]]
    /\ results = <<>>
    /\ futures = <<>>
    /\ pc = "loop"
    /\ i = 0
    /\ page_idx = 0
    /\ batch_end = 0
    /\ fpos = 1
    /\ pages = <<>>
    /\ page_count = 0
    /\ delivered = <<>>
    /\ stop_at = 0
    /\ stage = "idle"
    /\ annotated_lines = <<>>
    /\ semantic_units = <<>>
    /\ chunks = <<>>
    /\ result = NoResult
    /\ ApiIdle
    /\ VocabLoaded
    /\ EncodeIdle
    /\ PoolIdle
    /\ BatchIdle

StreamNext ==
    \/ \E w \in Workers : WorkerTake(w)
    \/ \E w \in Workers : WorkerRun(w)
    \/ \E w \in Workers : WorkerCount(w)
    \/ BatchStart
    \/ Enqueue
    \/ EnqueueDone
    \/ Collect
    \/ CollectDone
    \/ StreamReturn
    \/ ChunkFileFinish

SpecStream == StreamInit /\ [][StreamNext]_vars

(* ------------------------------------------------------------------ *)
(* Properties of the dispatcher (checked under Spec)                   *)
(* ------------------------------------------------------------------ *)
Returned == pc \in {"returned", "done"}

Running == {w \in Workers : workers[w].pc = "run"}

RECURSIVE SuccessfulFrom(_, _)
SuccessfulFrom(d, p) ==
    IF p >= Cardinality(DOMAIN d) THEN <<>>
    ELSE (IF d[p] = Failed THEN <<>> ELSE <<(<<PageText(d[p]), p>>)>>)
             \o SuccessfulFrom(d, p + 1)

\* the successfully extracted pages of a document, in page order
SuccessfulPages(d) == SuccessfulFrom(d, 0)

\* C1: whatever order the extraction tasks finish in, the callback receives the
\* page numbers 0, 1, 2, ... in exactly that order, and all N of them by the time
\* parse_streaming returns.
C1_PageOrder ==
    /\ \A k \in 1..Len(delivered) : delivered[k].page_number = k - 1
    /\ Returned => Len(delivered) = N

\* pages 0 and 1 have both been delivered in order although the task of page 1
\* left its worker while the task of page 0 is still held by one
C1_Witness ==
    /\ Len(delivered) = 2
    /\ delivered[2].page_number = 1
    /\ \E w \in Workers : workers[w].task = 0 /\ workers[w].pc = "ran"
    /\ \A w \in Workers : workers[w].task # 1

\* C2: once the callback has returned false at the k-th delivery, no task of a
\* later batch is submitted: at most k + batch_size - 1 callbacks are made and no
\* page beyond the batch of the k-th delivery is ever enqueued.
C2_EarlyTermination ==
    stop_at > 0 =>
        /\ Len(delivered) <= stop_at + batch_size - 1
        /\ \A k \in 1..Len(futures) :
              futures[k] < (((stop_at - 1) \div batch_size) + 1) * batch_size

\* C3: a positive page_limit caps the pages chunk_file consumes; 0 and -1 consume
\* every extractable page.
C3_PageLimit ==
    pc = "done" =>
        /\ page_limit > 0 => Len(pages) <= page_limit /\ result.total_pages <= page_limit
        /\ page_limit <= 0 => Len(pages) = Len(SuccessfulPages(doc))

\* C6: whichever pages fail, the callback is invoked exactly once per page, page k
\* with the outcome of its extraction (success = false and the error for a failing
\* page), and chunk_file hands the chunker exactly the successful pages in order.
C6_FailureIsolation ==
    /\ \A k \in 1..Len(delivered) :
          /\ delivered[k].page_number = k - 1
          /\ delivered[k].success = (doc[k - 1] # Failed)
          /\ (doc[k - 1] = Failed) => delivered[k].error # ""
    /\ Len(pages) <= Len(delivered)
    /\ Returned => Len(delivered) = N /\ pages = SuccessfulPages(doc)

\* a document with a failing page followed by a good one has been streamed
C6_Witness ==
    /\ pc = "returned"
    /\ \E p, q \in DOMAIN doc : p < q /\ doc[p] = Failed /\ doc[q] # Failed
    /\ Len(pages) >= 1
    /\ Len(pages) < N

\* C7: at most batch_size extraction tasks are queued or running at any time, and
\* a page is enqueued only after every page of the earlier batches was delivered.
C7_InFlightBound ==
    /\ Len(tasks) + Cardinality(Running) <= batch_size
    /\ \A k \in 1..Len(futures) :
          Len(delivered) >= (futures[k] \div batch_size) * batch_size

\* a whole batch is running at once on a pool with as many workers
C7_Witness ==
    /\ batch_size = 2
    /\ num_threads = 2
    /\ Cardinality(Running) = batch_size

\* C8: the chunk sequence chunk_file returns is a function of the document and
\* the options alone: it is the pipeline applied to the successful pages in page
\* order, for every pool size, batch size and interleaving.
C8_Deterministic ==
    pc = "done" =>
        result = ChunkingResult(
                     create_hierarchical_chunks_internal(SuccessfulPages(doc), encoder,
                         options.max_tokens, options.overlap_tokens, options.min_tokens),
                     Len(SuccessfulPages(doc)))

\* a run on two workers that returned several chunks from several pages
C8_Witness ==
    /\ pc = "done"
    /\ num_threads = 2
    /\ batch_size = 2
    /\ Len(result.chunks) >= 2
    /\ result.total_pages >= 2

(* ------------------------------------------------------------------ *)
(* Properties of the pipeline (checked under SpecChunk)                *)
(* ------------------------------------------------------------------ *)
Packed == stage \in {"initial", "overlapped", "merged", "split", "final", "measured"}

RECURSIVE Concat(_)
Concat(texts) == IF texts = <<>> THEN <<>> ELSE Head(texts) \o Concat(Tail(texts))

Covered(cs) == UNION {cs[k].start_page..cs[k].end_page : k \in 1..Len(cs)}

KeptPages(units) == UNION {units[k].pages : k \in 1..Len(units)}

NonEmptyPageNumbers(ps) == {ps[k][2] : k \in {j \in 1..Len(ps) : ps[j][1] # <<>>}}

SingleOversizedLine(text) ==
    /\ Len(GetLines(text)) = 1
    /\ count_tokens(GetLines(text)[1], encoder) > options.max_tokens

\* C4: every returned chunk has token_count <= max_tokens, or is exactly one line
\* whose own token count exceeds max_tokens.
C4_UpperBound ==
    stage = "done" =>
        \A k \in 1..Len(result.chunks) :
            \/ result.chunks[k].token_count <= options.max_tokens
            \/ SingleOversizedLine(result.chunks[k].text)

\* C5 as claimed: every returned chunk but the last has token_count >= min_tokens.
C5_LowerBound ==
    stage = "done" =>
        \A k \in 1..(Len(result.chunks) - 1) :
            result.chunks[k].token_count >= options.min_tokens

\* C5 as amended: in the output of pass 7 every chunk but the last has a tracked
\* token count >= min_tokens, or else its tracked count plus that of the chunk
\* after it exceeds max_tokens (the strict merge had no room).
C5_LowerBoundOrNoRoom ==
    stage = "final" =>
        \A k \in 1..(Len(chunks) - 1) :
            \/ chunks[k].tokens >= options.min_tokens
            \/ chunks[k].tokens + chunks[k + 1].tokens > options.max_tokens

\* pass 7 left an undersized chunk in front of another chunk
C5_Witness ==
    /\ stage = "final"
    /\ \E k \in 1..(Len(chunks) - 1) : chunks[k].tokens < options.min_tokens

\* C9: with the pages in increasing page order, after pass 3 and after every later
\* pass the chunks are in source order: their texts concatenate to the text of the
\* semantic units and start_page never decreases from a chunk to the next.
C9_SourceOrder ==
    /\ Packed =>
          /\ \A k \in 1..(Len(chunks) - 1) : chunks[k].start_page <= chunks[k + 1].start_page
          /\ Concat([k \in 1..Len(chunks) |-> chunks[k].text])
                 = Concat([k \in 1..Len(semantic_units) |-> get_text(semantic_units[k])])
    /\ stage = "done" =>
          \A k \in 1..(Len(result.chunks) - 1) :
              result.chunks[k].start_page <= result.chunks[k + 1].start_page

\* chunks were split (more chunks than semantic units) and span several pages
C9_Witness ==
    /\ stage = "done"
    /\ Len(result.chunks) > Len(semantic_units)
    /\ result.chunks[1].start_page < result.chunks[Len(result.chunks)].start_page

RECURSIVE UnitsTokens(_, _)
UnitsTokens(units, k) ==
    IF k = 0 THEN 0 ELSE units[k].total_tokens + UnitsTokens(units, k - 1)

UnitsText(units, k) == Concat([m \in 1..k |-> get_text(units[m])])

\* some chunk ends exactly off bytes into the concatenated chunk texts
CutAt(cs, off) ==
    \E j \in 0..Len(cs) : Len(Concat([m \in 1..j |-> cs[m].text])) = off

StartsMajor(unit) == unit.lines[1].type = "MAJOR_HEADING"

HeadingLevels(text) ==
    {detect_line_type(l)[2] :
        l \in {GetLines(text)[k] : k \in {j \in 1..Len(GetLines(text)) :
                   IsHeadingType(detect_line_type(GetLines(text)[j])[1])}}}

HasMajorLine(text) ==
    \E k \in 1..Len(GetLines(text)) :
        detect_line_type(GetLines(text)[k])[1] = "MAJOR_HEADING"

\* C11: when the text in front of a unit that starts with a level-1 or level-2
\* heading has t tokens with min_tokens/2 <= t < min_tokens, the returned chunks
\* have a boundary between that text and the heading: the two never share a chunk.
C11_MajorHeadingVeto ==
    stage = "done" =>
        \A k \in 2..Len(semantic_units) :
            LET t == UnitsTokens(semantic_units, k - 1)
            IN  (/\ StartsMajor(semantic_units[k])
                 /\ 2 * t >= options.min_tokens
                 /\ t < options.min_tokens)
                    => CutAt(result.chunks, Len(UnitsText(semantic_units, k - 1)))

\* C12: for every returned chunk min_heading_level is the smallest level among
\* the heading lines of its text, major or minor, and is 999 exactly when the
\* text has no heading line.
C12_MinHeadingLevel ==
    stage = "done" =>
        \A k \in 1..Len(result.chunks) :
            LET levels == HeadingLevels(result.chunks[k].text)
            IN  result.chunks[k].min_heading_level
                    = IF levels = {} THEN NoHeading ELSE SetMin(levels)

\* C13: after every pass from pass 3 on, and in the returned chunks,
\* has_major_heading is true exactly for the chunks whose text has a level-1 or
\* level-2 heading line.
C13_HasMajorHeading ==
    /\ Packed =>
          \A k \in 1..Len(chunks) :
              chunks[k].has_major_heading <=> HasMajorLine(chunks[k].text)
    /\ stage = "done" =>
          \A k \in 1..Len(result.chunks) :
              result.chunks[k].has_major_heading <=> HasMajorLine(result.chunks[k].text)

RECURSIVE SumLineTokens(_, _)
SumLineTokens(lines, enc) ==
    IF lines = <<>> THEN 0
    ELSE count_tokens(Head(lines), enc) + SumLineTokens(Tail(lines), enc)

\* the tracked value of passes 3-7: the per-line counts summed
TrackedTokens(text, enc) == SumLineTokens(GetLines(text), enc)

StartsWithOverlap(text, prev, own) ==
    \E m \in 1..Len(text) : \E n \in 1..Len(prev) :
        /\ Len(text) = m + n + Len(own)
        /\ SubSeq(text, m + 1, m + n) = Suffix(prev, Len(prev) - n + 1)
        /\ Suffix(text, m + n + 1) = own

\* C15: with overlap_tokens > 0 and more than one chunk out of pass 3, after
\* pass 4 the text of every chunk but the first is a marker, a copy of the tail
\* of the preceding chunk's text and then the chunk's own text, with start_page
\* and end_page as pass 3 set them; the returned text carries the overlap too.
C15_OverlapPrepended ==
    LET initial == create_initial_chunks(semantic_units, options.max_tokens)
    IN  /\ (stage = "overlapped" /\ options.overlap_tokens > 0 /\ Len(initial) > 1) =>
              \A k \in 2..Len(chunks) :
                  /\ StartsWithOverlap(chunks[k].text, initial[k - 1].text, initial[k].text)
                  /\ chunks[k].start_page = initial[k].start_page
                  /\ chunks[k].end_page = initial[k].end_page
        /\ (stage = "done" /\ options.overlap_tokens > 0 /\ Len(initial) > 1) =>
              Len(Concat([k \in 1..Len(result.chunks) |-> result.chunks[k].text]))
                  > Len(UnitsText(semantic_units, Len(semantic_units)))

(* ------------------------------------------------------------------ *)
(* Properties of the HierarchicalChunker object (checked under SpecApi) *)
(* ------------------------------------------------------------------ *)
ValidOptions(opts) ==
    /\ 0 < opts.min_tokens
    /\ opts.min_tokens <= opts.max_tokens
    /\ opts.overlap_tokens < opts.max_tokens

\* C16: a chunker object never holds options that break 0 < min_tokens <=
\* max_tokens or overlap_tokens < max_tokens: construction with such options
\* fails, so no chunk_file result is ever computed from them.
C16_OptionValidation == constructed => ValidOptions(options)

\* C17: process_pdf_to_json returns true only if the full JSON array of the
\* chunks is at output_path, and false whenever chunk_file reported an error or
\* the output was not written.
C17_ReturnTellsWritten ==
    process_ret # "none" =>
        /\ process_ret = "true" <=>
              output_file = [exists |-> TRUE, complete |-> TRUE,
                             chunks |-> JsonOutput(result)]
        /\ error # "" => process_ret = "false"

(* ------------------------------------------------------------------ *)
(* Properties of the vocabulary load (checked under SpecVocab)         *)
(* ------------------------------------------------------------------ *)
LoadComplete ==
    /\ vocab_initialized
    /\ <<encoder, decoder>> = LoadLines(BlobLines, <<>>, <<>>)

\* C18: for any number of threads constructing tokenizers and any interleaving,
\* the load body is entered at most once, and a constructor has returned only
\* when the load is complete: the maps hold the whole vocabulary and do not
\* change after any constructor returned.
C18_InitOnce ==
    /\ load_runs <= 1
    /\ (\E t \in Threads : ctor[t] = "returned") => LoadComplete

(* ------------------------------------------------------------------ *)
(* Properties of encode and count_tokens (checked under SpecEncode)    *)
(* ------------------------------------------------------------------ *)
RECURSIVE SumTo(_, _)
SumTo(seq, k) == IF k = 0 THEN 0 ELSE seq[k] + SumTo(seq, k - 1)

\* the cursor positions the loop has been at
Cuts == {SumTo(enc_adv, k) : k \in 0..Len(enc_adv)}

NoMatchAt(at) ==
    \A len \in 1..Min(MaxTokenLen, Len(EncText) - at) :
        SubSeq(EncText, at + 1, at + len) \notin DOMAIN encoder

\* C19: on every text and every vocabulary each iteration of encode emits one id
\* and advances the cursor by between 1 and min(20, remaining bytes); a byte
\* without a vocabulary match is emitted as itself, an id in 0..255, with an
\* advance of one; the loop ends with the cursor exactly at the end of the text
\* after at most len(text) iterations, and the empty text has no tokens.
C19_EncodeTerminates ==
    /\ Len(enc_tokens) = Len(enc_adv)
    /\ enc_pos = SumTo(enc_adv, Len(enc_adv))
    /\ enc_pos <= Len(EncText)
    /\ \A k \in 1..Len(enc_adv) :
          LET at == SumTo(enc_adv, k - 1)
          IN  /\ enc_adv[k] >= 1
              /\ enc_adv[k] <= Min(MaxTokenLen, Len(EncText) - at)
              /\ NoMatchAt(at) =>
                    /\ enc_adv[k] = 1
                    /\ enc_tokens[k] = EncText[at + 1]
                    /\ enc_tokens[k] \in 0..255
    /\ enc_pc = "returned" =>
          /\ enc_pos = Len(EncText)
          /\ enc_tokens = encode(EncText, encoder)
          /\ EncText = <<>> => count_tokens(EncText, encoder) = 0

\* a text longer than 20 bytes was encoded with a token of the full 20 bytes and
\* a byte that fell back
C19_Witness ==
    /\ enc_pc = "returned"
    /\ Len(EncText) > MaxTokenLen
    /\ \E k \in 1..Len(enc_adv) : enc_adv[k] = MaxTokenLen
    /\ \E k \in 1..Len(enc_adv) : NoMatchAt(SumTo(enc_adv, k - 1))

\* C20 as claimed: count(a ++ b) <= count(a) + count(b) + 1 for all a and b.
C20_Subadditive ==
    enc_pc = "returned" =>
        Len(enc_tokens) <= count_tokens(enc_a, encoder) + count_tokens(enc_b, encoder) + 1

\* C20 as amended: count(a ++ b) <= count(a) + len(b), and count(a ++ b) is
\* count(a) + count(b) when no token of the encoding of a ++ b spans the
\* boundary between a and b.
C20_BoundedByBytes ==
    enc_pc = "returned" =>
        /\ Len(enc_tokens) <= count_tokens(enc_a, encoder) + Len(enc_b)
        /\ Len(enc_a) \in Cuts =>
              Len(enc_tokens) = count_tokens(enc_a, encoder) + count_tokens(enc_b, encoder)

\* a token spans the boundary and the rest of b falls apart into more tokens
\* than b has on its own
C20_Witness ==
    /\ enc_pc = "returned"
    /\ Len(enc_a) \notin Cuts
    /\ Len(enc_tokens) > count_tokens(enc_a, encoder) + count_tokens(enc_b, encoder) + 1

(* ------------------------------------------------------------------ *)
(* Properties of the ThreadPool                                        *)
(* ------------------------------------------------------------------ *)
Accepted == 1..enq_count

Executed(t) == t \in Accepted /\ exec_count[t] = 1 /\ t \in DOMAIN results

\* C21: with at least one worker, every task enqueue accepted is called exactly
\* once: never twice, once the destructor has returned nothing is left queued
\* or uncalled, the shared state of the future holds the callable's value or
\* its exception, a worker leaves its loop only on stop, and under fair
\* scheduling the pool always comes back to a state in which every task
\* accepted so far has been called
C21_NeverTwice ==
    /\ \A t \in Accepted : exec_count[t] <= 1
    /\ \A t \in DOMAIN results :
          /\ exec_count[t] = 1
          /\ results[t] = IF throws[t] THEN "exception" ELSE "value"
    /\ \A w \in Workers : workers[w].pc = "exited" => stop
    /\ owner = "destroyed" => tasks = <<>> /\ \A t \in Accepted : Executed(t)

C21_ExactlyOnce ==
    /\ []C21_NeverTwice
    /\ []<>(\A t \in Accepted : Executed(t))

\* one worker called a throwing task and then a later task, with the second
\* task still queued when the destructor started
C21_Witness ==
    /\ num_threads = 1
    /\ enq_count = 2
    /\ throws[1]
    /\ Executed(1) /\ Executed(2)
    /\ owner = "destroyed"

\* C22: when wait_all has returned, every task enqueued before the call has
\* finished executing and none of them is in the queue (the queue was empty at
\* the return; what it holds later was enqueued after the call)
C22_WaitAllReturn ==
    owner = "waited" =>
        /\ \A t \in 1..wait_seen : Executed(t)
        /\ \A k \in 1..Len(tasks) : tasks[k] > wait_seen
        /\ \A w \in Workers : workers[w].pc = "run" => workers[w].task > wait_seen

\* wait_all returned after two tasks had been enqueued, one of them throwing
C22_Witness ==
    /\ owner = "waited"
    /\ wait_seen >= 2
    /\ \E t \in 1..wait_seen : throws[t]

Waiting == owner \in {"wait_pre", "wait_blocked", "wait_woken"}

\* C23: a thread inside wait_all eventually returns, under fair scheduling of
\* the workers and of the waiting thread, with a bounded number of tasks that
\* all terminate, and with no spurious wake-up
C23_WaitAllLive == Waiting ~> (owner = "waited")

\* C23 as a state property: while wait_all is blocked on finished, some
\* notification is still to come: a task is queued, running, or not yet
\* counted and notified by its worker
C23_NoLostWakeup ==
    owner = "wait_blocked" =>
        \/ tasks # <<>>
        \/ \E w \in Workers : workers[w].pc \in {"run", "ran", "counted"}

\* the workers that have taken a task and not yet decremented active_tasks
Holding == {w \in Workers : workers[w].pc \in {"run", "ran"}}

\* C30: active_tasks is the number of accepted tasks whose completion has not
\* been counted yet, the queued ones plus the ones a worker has taken and not
\* yet decremented; so it is at least the queue size, never negative, and zero
\* once every accepted task has completed and been counted
C30_ActiveTasks ==
    /\ active_tasks = Len(tasks) + Cardinality(Holding)
    /\ active_tasks >= Len(tasks)
    /\ active_tasks >= 0
    /\ (tasks = <<>> /\ Holding = {}) => active_tasks = 0

\* one task is queued while a worker is calling another
C30_Witness ==
    /\ enq_count >= 2
    /\ Len(tasks) = 1
    /\ Cardinality(Holding) = 1
    /\ active_tasks = 2

(* ------------------------------------------------------------------ *)
(* Further properties of the pipeline (checked under SpecChunk)        *)
(* ------------------------------------------------------------------ *)
RECURSIVE SumTokens(_)
SumTokens(cs) == IF cs = <<>> THEN 0 ELSE Head(cs).tokens + SumTokens(Tail(cs))

\* out is the chunks of a run in[1..n] of pass 7's input taken together
TakenTogether(in, n, out) ==
    /\ out.text = Concat([k \in 1..n |-> in[k].text])
    /\ out.tokens = SumTokens(SubSeq(in, 1, n))
    /\ out.start_page = in[1].start_page
    /\ out.end_page = in[n].end_page

\* out is in, cut into consecutive runs: a run of one chunk is that chunk
\* unchanged, a longer run is one chunk of at most max_tokens tracked tokens
RECURSIVE Regrouped(_, _, _)
Regrouped(in, out, max_tokens) ==
    IF out = <<>> THEN in = <<>>
    ELSE \E n \in 1..Len(in) :
            /\ IF n = 1 THEN Head(out) = in[1]
               ELSE /\ TakenTogether(in, n, Head(out))
                    /\ Head(out).tokens <= max_tokens
            /\ Regrouped(SubSeq(in, n + 1, Len(in)), Tail(out), max_tokens)

\* C26: pass 7 merges strictly: every chunk it forms by a forward or backward
\* merge has at most max_tokens tracked tokens, and a chunk taking part in no
\* merge leaves the pass with text, tokens and page range unchanged
C26_StrictFinalMerge ==
    [][(stage = "split" /\ stage' = "final")
          => Regrouped(chunks, chunks', options.max_tokens)]_vars

\* the input of pass 7 recomputed from the semantic units
SplitOutput ==
    split_oversized_chunks(
        merge_small_chunks_hierarchically(
            add_overlap(create_initial_chunks(semantic_units, options.max_tokens),
                        options.overlap_tokens, encoder),
            options.min_tokens, options.max_tokens),
        options.max_tokens, encoder)

\* pass 7 merged some chunks and passed another one through
C26_Witness ==
    /\ stage = "final"
    /\ Len(chunks) < Len(SplitOutput)
    /\ \E k \in 1..Len(chunks) : \E j \in 1..Len(SplitOutput) : chunks[k] = SplitOutput[j]

\* the lines std::getline finds in the non-empty pages, in page order
RECURSIVE SourceLines(_)
SourceLines(ps) ==
    IF ps = <<>> THEN <<>>
    ELSE (IF Head(ps)[1] # <<>> THEN GetLines(Head(ps)[1]) ELSE <<>>) \o SourceLines(Tail(ps))

IsBlankLine(line) == detect_line_type(line)[1] = "BLANK"

IsHeadingLine(line) == IsHeadingType(detect_line_type(line)[1])

\* a blank line at the start of a semantic unit: only blank lines before it,
\* or a heading right after it
DroppedBlank(lines, k) ==
    /\ IsBlankLine(lines[k])
    /\ \/ \A j \in 1..(k - 1) : IsBlankLine(lines[j])
       \/ k + 1 <= Len(lines) /\ IsHeadingLine(lines[k + 1])

\* every line that is not a dropped blank, followed by a newline, in order
RECURSIVE KeptText(_, _)
KeptText(lines, k) ==
    IF k > Len(lines) THEN <<>>
    ELSE (IF DroppedBlank(lines, k) THEN <<>> ELSE lines[k] \o <<NL>>)
             \o KeptText(lines, k + 1)

NonBlankLines(text) == SelectSeq(GetLines(text), LAMBDA l : ~IsBlankLine(l))

\* C28: the returned chunk texts, concatenated, are the lines of the non-empty
\* pages in source order, each followed by a newline, without the blank lines
\* dropped at the start of a semantic unit; after each of passes 3-7 the non-blank
\* lines of the chunks are the non-blank lines of the pages, in order, once each
C28_LineConservation ==
    /\ Packed =>
          NonBlankLines(Concat([k \in 1..Len(chunks) |-> chunks[k].text]))
              = SelectSeq(SourceLines(pages), LAMBDA l : ~IsBlankLine(l))
    /\ stage = "done" =>
          Concat([k \in 1..Len(result.chunks) |-> result.chunks[k].text])
              = KeptText(SourceLines(pages), 1)

\* a blank line was dropped, another was kept, and a line longer than
\* max_tokens came out as a chunk of its own
C28_Witness ==
    /\ stage = "done"
    /\ \E k \in 1..Len(SourceLines(pages)) : DroppedBlank(SourceLines(pages), k)
    /\ \E k \in 1..Len(SourceLines(pages)) :
          IsBlankLine(SourceLines(pages)[k]) /\ ~DroppedBlank(SourceLines(pages), k)
    /\ \E k \in 1..Len(result.chunks) : SingleOversizedLine(result.chunks[k].text)

(* ------------------------------------------------------------------ *)
(* Properties of parse_batch and process_directory (SpecBatch)         *)
(* ------------------------------------------------------------------ *)
BatchReturned == pc \in {"returned", "done"}

ResultsFor(k) == {j \in 1..Len(batch_results) : batch_results[j].file = k}

\* C24: parse_batch over n paths returns exactly n results, one per input path:
\* the parsed document, or an object with "error" and "file" where parse threw;
\* the progress callback runs once per document, each time with
\* 1 <= current <= total = n; this for every pool size and interleaving
C24_OneResultPerPath ==
    /\ Len(progress_calls) <= Len(pdf_paths)
    /\ \A c \in 1..Len(progress_calls) :
          /\ 1 <= progress_calls[c][1]
          /\ progress_calls[c][1] <= progress_calls[c][2]
          /\ progress_calls[c][2] = Len(pdf_paths)
    /\ BatchReturned =>
          /\ Len(batch_results) = Len(pdf_paths)
          /\ Len(progress_calls) = Len(pdf_paths)
          /\ \A k \in 1..Len(pdf_paths) :
                /\ Cardinality(ResultsFor(k)) = 1
                /\ \A j \in ResultsFor(k) :
                      batch_results[j] = IF pdf_paths[k].ok
                                         THEN [file |-> k, error |-> FALSE,
                                               pages |-> pdf_paths[k].pages]
                                         ELSE [file |-> k, error |-> TRUE, pages |-> 0]

\* two paths on two workers, one of them failing, finished out of order, and
\* both callbacks saw current = 2
C24_Witness ==
    /\ BatchReturned
    /\ num_threads = 2
    /\ Len(batch_results) = 2
    /\ batch_results[1].file = 2
    /\ \E k \in 1..2 : batch_results[k].error
    /\ progress_calls = <<(<<2, 2>>), (<<2, 2>>)>>

AllParse == \A k \in 1..Len(pdf_paths) : pdf_paths[k].ok

RECURSIVE SumPages(_)
SumPages(ps) == IF ps = <<>> THEN 0 ELSE Head(ps).pages + SumPages(Tail(ps))

\* C25: after parse_batch over n documents that all parse, documents_processed
\* has grown by n and pages_processed by the sum of their page counts
C25_NoLostUpdate ==
    (BatchReturned /\ AllParse) =>
        /\ stats.documents_processed = Len(pdf_paths)
        /\ stats.pages_processed = SumPages(pdf_paths)

\* C29: every iteration of the save loop of process_directory handles, under
\* the name of pdf_files[i], the result parse_batch produced for that path
C29_ResultsPairedByIndex ==
    pc = "done" => \A k \in 1..Len(saved) : saved[k].from = saved[k].named

(* ------------------------------------------------------------------ *)
(* Termination of parse_streaming (SpecStream)                         *)
(* ------------------------------------------------------------------ *)
\* C27: parse_streaming over a readable N-page document returns after N
\* callbacks for every thread_count and batch_size of ParseOptions: the call
\* is never stuck before its return (the pool has a worker to run the tasks
\* it waits for), the batch loop moves i forward each time round, and the
\* callback has run N times at the return
C27_StreamingReturns ==
    /\ [](pc = "done" \/ ENABLED StreamNext)
    /\ [][(pc = "collect" /\ pc' = "loop") => i' > i]_vars
    /\ [](Returned => Len(delivered) = N)

====
